---- MODULE Spec2Model ----
(***************************************************************************)
(* A model of the data migration tools: the extractor                     *)
(* (src/extract_data.js, the ndJSON variant that starts at line 209, and   *)
(* the mapper of the single-document variant before it), the loader        *)
(* (src/load_data.js), the repositories collection of the older            *)
(* single-document extractor (src/unnamed/part_003), key rotation          *)
(* (src/rotate_rsa_key.js) and requestKeys (src/lib/requestKeys.js).       *)
(*                                                                         *)
(* JavaScript strings are modelled as sequences of tokens: a token is a    *)
(* whole user key ("github:<digits>"), one separator character (",", " ",  *)
(* "|", "/") or an opaque piece of text.  The regular expressions of the   *)
(* source are evaluated over these token sequences.                        *)
(*                                                                         *)
(* JSON values are records of one shape, [t, s, e]: t is the type tag,     *)
(* s the token sequence of a string, e the entries of an object in         *)
(* property (insertion) order.                                             *)
(*                                                                         *)
(* The specifications share the variables:                                 *)
(*   SpecRewrite  one writeItem call on any value of the value universe    *)
(*   SpecMapper   a sequence of direct mapUserKey calls                    *)
(*   SpecSched    one forEachLimit call with abstract workers              *)
(*   Spec         the run of extract(): the phases and their workers, over *)
(*                a store whose records are present, absent or archived;   *)
(*                the content of the records is not modelled there, the    *)
(*                output is the bag of the keys of the lines written, the  *)
(*                run has an explicit user map, no org map and no --merge  *)
(*   SpecGenMapper  mapUserKey of the single-document variant             *)
(*   SpecStrip    one stripReview call on any review of a review universe  *)
(*   SpecUser     one worker of extractUsers on any user of a universe     *)
(*   SpecLoad     the loader over a file of parsed lines, with its         *)
(*                processLine calls in flight together                     *)
(*   SpecRound    one record line written by the extractor and read        *)
(*                back by the loader's split and parse stages              *)
(*   SpecBodies   the comment bodies of one review through extraction      *)
(*                and loading                                              *)
(*   SpecOut      writeItem calls in flight on the one output stream       *)
(*   SpecLive     Spec with the fairness of a run whose requests return    *)
(*   SpecDownload the downloads of uploaded files scheduled by stripReview *)
(*   SpecIdentity the user phase of a run without a user map               *)
(*   SpecTweak    the loader with an uploaded-files URL, its processLine   *)
(*                calls suspended in tweakReview                           *)
(*   SpecNest     the repositories collection of the single-document       *)
(*                extractor, one collection per owner in flight            *)
(*   SpecRotate   the key rotation, one transaction per user               *)
(*   SpecKeys     one requestKeys call and the answers to its requests     *)
(***************************************************************************)
EXTENDS Integers, Sequences, FiniteSets, Bags, TLC

VARIABLES
  \* ---- process-wide state of extract_data.js
  identityUserMap,   \* const identityUserMap = !args.users
  userMap,           \* userMap: old user key -> new user key
  ghostedUsers,      \* let ghostedUsers = []: sequence of {userKey, context}
  paceTotal,         \* pace.total
  out,               \* the lines written to the output stream, in order
  \* ---- one writeItem call observed from outside
  rpc,               \* "ready" | "written" | "skipped" | "twice"
  wiKey,             \* the key given to writeItem
  wiValue,           \* the value given to writeItem
  wiResult,          \* what mapAllUserKeys returned inside writeItem
  wiMap,             \* userMap as it was when writeItem was called
  reResult,          \* the result of rewriting wiResult again in identity mode
  calls              \* direct mapUserKey calls so far: sequence of [key, result]

rewriteVars == <<identityUserMap, userMap, ghostedUsers, paceTotal, out,
                 rpc, wiKey, wiValue, wiResult, wiMap, reResult, calls>>

\* ---- the extraction run (extract and the phases it awaits)
VARIABLES
  store,               \* the datastore the run reads (it does not change)
  repoNames,           \* const repoNames: the seed list
  status,              \* phase -> "notStarted" | "running" | "resolved" | "rejected"
  coll,                \* phase -> the collection handed to forEachLimit
  sched,               \* phase -> forEachLimit's position, running count, done flag
  wk,                  \* phase -> item index -> where that worker is
  reviewKeys,          \* let reviewKeys = []
  reversePullRequests, \* review key -> "owner/repo#pr" of its last writer
  missingReviewKeys,   \* const missingReviewKeys = []
  unknownUsers,        \* const unknownUsers = []
  written,             \* the keys of the lines handed to out.write, as a bag
  issued,              \* phase -> store requests and writes the phase issued
  paceOps,             \* the number of pace.op() calls
  exit,                \* "running" | "0" | "1": process.exit
  handed,              \* the item indexes forEachLimit handed out, in order
  finished,            \* the number of worker invocations that called back
  unmapped             \* logUnmappedUsers: mapLimit's position and its workers

pipelineVars == <<store, repoNames, status, coll, sched, wk, reviewKeys,
                  reversePullRequests, missingReviewKeys, unknownUsers,
                  written, issued, paceOps, exit, handed, finished, unmapped>>

\* ---- one call of a function of the tools on one input, and the loader
VARIABLES
  input,               \* what the function is called on
  output,              \* what it returned, wrote or threw
  hpc,                 \* where the call is
  dest                 \* the destination store of load_data.js: path -> value

harnessVars == <<input, output, hpc, dest>>

vars == <<rewriteVars, pipelineVars, harnessVars>>

\* no function call and no load under way
HarnessIdle ==
  /\ input = <<>>
  /\ output = <<>>
  /\ hpc = "none"
  /\ dest = <<>>

-----------------------------------------------------------------------------
(* Bounds of the model *)

\* most properties a value of the value universe has, nested ones included
MaxSize == 3
\* most direct mapUserKey calls in one run of SpecMapper
MaxCalls == 3

-----------------------------------------------------------------------------
(* JSON values *)

Str(s) == [t |-> "str", s |-> s, e |-> <<>>]
Obj(e) == [t |-> "obj", s |-> <<>>, e |-> e]
Num == [t |-> "num", s |-> <<"7">>, e |-> <<>>]
Null == [t |-> "null", s |-> <<>>, e |-> <<>>]
EmptyObj == Obj(<<>>)

\* _.isString, _.isObject, _.isEmpty (of an object)
IsString(v) == v.t = "str"
IsObject(v) == v.t = "obj"
IsEmpty(v) == v.e = <<>>

\* the user keys the model knows; the ghost is the literal of line 670
UserKeys == {"github:1", "github:2", "github:3", "github:4"}
GhostKey == "github:1"

\* the context of a call that passes none (`undefined` in a template string)
Undefined == <<"undefined">>
\* the array index lodash's map hands to its iteratee as second argument
IndexTok(i) == <<"0", "1", "2", "3", "4", "5", "6", "7">>[i + 1]

EmptyMap == [k \in {} |-> k]
Put(f, k, v) == [x \in (DOMAIN f) \cup {k} |-> IF x = k THEN v ELSE f[x]]

-----------------------------------------------------------------------------
(* The regular expressions of mapAllUserKeys, over token sequences *)

RECURSIVE SkipSpaces(_, _)
\* the first index >= i of s that holds no " " (Len(s) + 1 if none): \s*
SkipSpaces(s, i) ==
  IF i <= Len(s) /\ s[i] = " " THEN SkipSpaces(s, i + 1) ELSE i

RECURSIVE MatchListRest(_, _)
\* (\s*,\s*github:\d+)*$ from index i
MatchListRest(s, i) ==
  IF i > Len(s) THEN TRUE
  ELSE LET j == SkipSpaces(s, i)
           k == SkipSpaces(s, j + 1)
       IN /\ j <= Len(s) /\ s[j] = ","
          /\ k <= Len(s) /\ s[k] \in UserKeys
          /\ MatchListRest(s, k + 1)

\* /^github:\d+$/
MatchUserKey(s) == Len(s) = 1 /\ s[1] \in UserKeys
\* /^github:\d+(\s*,\s*github:\d+)*$/
MatchUserKeyList(s) == Len(s) >= 1 /\ s[1] \in UserKeys /\ MatchListRest(s, 2)
\* /\|github:\d+$/
MatchSuffix(s) == Len(s) >= 2 /\ s[Len(s)] \in UserKeys /\ s[Len(s) - 1] = "|"

RECURSIVE SplitComma(_)
\* s cut at every "," token
SplitComma(s) ==
  IF \A i \in 1..Len(s) : s[i] # "," THEN <<s>>
  ELSE LET i == CHOOSE n \in 1..Len(s) :
                  s[n] = "," /\ \A m \in 1..(n - 1) : s[m] # ","
       IN <<SubSeq(s, 1, i - 1)>> \o SplitComma(SubSeq(s, i + 1, Len(s)))

RECURSIVE TrimRight(_)
TrimRight(s) ==
  IF Len(s) > 0 /\ s[Len(s)] = " " THEN TrimRight(SubSeq(s, 1, Len(s) - 1)) ELSE s

\* String.prototype.split(/\s*,\s*/): each separator takes the blanks on both
\* sides of its comma
Split(s) ==
  LET raw == SplitComma(s)
      n == Len(raw)
  IN [i \in 1..n |->
        LET a == IF i > 1
                   THEN SubSeq(raw[i], SkipSpaces(raw[i], 1), Len(raw[i]))
                   ELSE raw[i]
        IN IF i < n THEN TrimRight(a) ELSE a]

RECURSIVE Uniq(_)
\* _.uniq: the first occurrence of every element, in order
Uniq(seq) ==
  IF seq = <<>> THEN <<>>
  ELSE LET front == Uniq(SubSeq(seq, 1, Len(seq) - 1))
           last == seq[Len(seq)]
       IN IF \E i \in 1..Len(front) : front[i] = last THEN front
          ELSE Append(front, last)

RECURSIVE JoinMutantBlank(_)
\* a join that puts ", " between the elements
JoinMutantBlank(toks) ==
  IF Len(toks) <= 1 THEN toks
  ELSE <<toks[1], ",", " ">> \o JoinMutantBlank(Tail(toks))

RECURSIVE Join(_)
\* Array.prototype.join(',') of one-token strings
Join(toks) ==
  IF Len(toks) <= 1 THEN toks
  ELSE <<toks[1], ",">> \o Join(Tail(toks))

-----------------------------------------------------------------------------
(* mapUserKey and mapAllUserKeys.  Both read and write process-wide state, *)
(* which is threaded through as st = [identityUserMap, userMap,            *)
(* ghostedUsers, paceTotal]; each returns [st, val].                       *)

\* mapUserKey without the registration of identity mode
MapUserKeyNoRegister(st, userKey, context) ==
  LET newUserKey == IF userKey \in DOMAIN st.userMap
                      THEN st.userMap[userKey] ELSE GhostKey
      st2 == IF userKey \notin DOMAIN st.userMap /\ userKey # GhostKey
               THEN [st EXCEPT !.ghostedUsers =
                       Append(@, [userKey |-> userKey, context |-> context])]
               ELSE st
  IN [st |-> st2, val |-> newUserKey]

MapUserKey(st, userKey, context) ==
  LET st1 == IF st.identityUserMap /\ userKey \notin DOMAIN st.userMap
               THEN [st EXCEPT !.userMap = Put(@, userKey, userKey),
                               !.paceTotal = @ + 1]
               ELSE st
      newUserKey == IF userKey \in DOMAIN st1.userMap
                      THEN st1.userMap[userKey] ELSE GhostKey
      st2 == IF userKey \notin DOMAIN st1.userMap /\ userKey # GhostKey
               THEN [st1 EXCEPT !.ghostedUsers =
                       Append(@, [userKey |-> userKey, context |-> context])]
               ELSE st1
  IN [st |-> st2, val |-> newUserKey]

RECURSIVE MapList(_, _, _)
\* _(pieces).map(mapUserKey): lodash calls mapUserKey(piece, index, array), so
\* the context of each call is the index of the piece
MapList(st, pieces, i) ==
  IF i > Len(pieces) THEN [st |-> st, val |-> <<>>]
  ELSE LET r == MapUserKey(st, pieces[i][1], <<IndexTok(i - 1)>>)
           rest == MapList(r.st, pieces, i + 1)
       IN [st |-> rest.st, val |-> <<r.val>> \o rest.val]

\* the properties of an object
HasKey(es, key) == \E i \in 1..Len(es) : es[i].k = key
Get(es, key) == es[CHOOSE i \in 1..Len(es) : es[i].k = key].v
\* delete object[key]
Delete(es, key) == SelectSeq(es, LAMBDA en : en.k # key)
\* object[key] = value: an existing property keeps its place, a new one is
\* appended (no key of the model is an integer index)
Set(es, key, value) ==
  IF HasKey(es, key)
    THEN [i \in 1..Len(es) |-> IF es[i].k = key THEN [k |-> key, v |-> value] ELSE es[i]]
    ELSE Append(es, [k |-> key, v |-> value])
KeysOf(es) == [i \in 1..Len(es) |-> es[i].k]

\* the test of line 655, never true
DropEntryNever(value) == FALSE

\* line 655: _.isObject(value) && _.isEmpty(value)
DropEntry(value) == IsObject(value) /\ IsEmpty(value)

\* the replacement of line 648, mapping every user key of the string
SuffixMapAll(st, s) ==
  LET RECURSIVE Go(_, _)
      Go(sti, i) ==
        IF i > Len(s) THEN [st |-> sti, val |-> <<>>]
        ELSE IF s[i] \in UserKeys
          THEN LET r == MapUserKey(sti, s[i], Undefined)
                   rest == Go(r.st, i + 1)
               IN [st |-> rest.st, val |-> <<r.val>> \o rest.val]
          ELSE LET rest == Go(sti, i + 1)
               IN [st |-> rest.st, val |-> <<s[i]>> \o rest.val]
  IN Go(st, 1)

\* line 648: object.replace(/\|github:\d+$/, match => `|${mapUserKey(match.slice(1))}`)
SuffixReplace(st, s) ==
  LET r == MapUserKey(st, s[Len(s)], Undefined)
  IN [st |-> r.st, val |-> SubSeq(s, 1, Len(s) - 2) \o <<"|", r.val>>]

\* line 645 without .uniq()
ListReplaceNoUniq(st, s) ==
  LET r == MapList(st, Split(s), 1)
  IN [st |-> r.st, val |-> Join(r.val)]

\* line 645: _(object).split(/\s*,\s*/).map(mapUserKey).uniq().join(',')
ListReplace(st, s) ==
  LET r == MapList(st, Split(s), 1)
  IN [st |-> r.st, val |-> Join(Uniq(r.val))]

RECURSIVE MapAllUserKeys(_, _, _)
RECURSIVE ForIn(_, _, _, _)

\* lines 651-660: for (const key in object) {...}.  keys is what is left of
\* the property list taken when the loop started; a property deleted before
\* its turn is skipped, one added during the loop is not visited (V8).
ForIn(st, es, keys, context) ==
  IF keys = <<>> THEN [st |-> st, val |-> es]
  ELSE LET key == Head(keys) IN
    IF ~HasKey(es, key) THEN ForIn(st, es, Tail(keys), context)
    ELSE LET rv == MapAllUserKeys(st, Get(es, key), context \o <<"/">> \o key)
             rk == MapAllUserKeys(rv.st, Str(key), context \o <<"/", "$key">>)
             newKey == rk.val.s
             es1 == IF key # newKey THEN Delete(es, key) ELSE es
             es2 == IF DropEntry(rv.val) THEN Delete(es1, key)
                    ELSE Set(es1, newKey, rv.val)
         IN ForIn(rk.st, es2, Tail(keys), context)

\* lines 641-663
MapAllUserKeys(st, object, context) ==
  IF IsString(object) THEN
    IF MatchUserKey(object.s)
      THEN LET r == MapUserKey(st, object.s[1], context)
           IN [st |-> r.st, val |-> Str(<<r.val>>)]
    ELSE IF MatchUserKeyList(object.s)
      THEN LET r == ListReplace(st, object.s)
           IN [st |-> r.st, val |-> Str(r.val)]
    ELSE IF MatchSuffix(object.s)
      THEN LET r == SuffixReplace(st, object.s)
           IN [st |-> r.st, val |-> Str(r.val)]
    ELSE [st |-> st, val |-> object]
  ELSE IF IsObject(object) THEN
    LET r == ForIn(st, object.e, KeysOf(object.e), context)
    IN [st |-> r.st, val |-> Obj(r.val)]
  ELSE [st |-> st, val |-> object]

-----------------------------------------------------------------------------
(* The value universe of the rewriter specifications *)

\* the strings that occur inside objects
LeafStrings ==
  { <<"github:2">>,
    <<"github:2", " ", ",", " ", "github:3", ",", "github:2">>,
    <<"a">> }
\* the strings that occur only as whole values
TopStrings ==
  { <<"github:1">>, <<"github:4">>,
    <<"github:2", ",", "github:3">>,
    <<"github:3", ",", " ", "github:4", " ", ",", "github:2">>,
    <<"github:2", " ", "github:3">>,
    <<"github:2", ",", " ">>,
    <<"a", ",", "github:2">>,
    <<"github:3", "|", "github:2">>,
    <<"a", "|", "github:4">>,
    <<"github:2", ",", "github:3", "|", "github:2">>,
    <<"github:2", "|">> }
Leaves == {Str(s) : s \in LeafStrings}
KeyStrings == { <<"a">>, <<"github:2">>, <<"github:3">> }

\* tab[i + 1] holds, for i properties in all (the properties of nested objects
\* counted): lists, the property lists with distinct keys, and vals, the values
EntryListsFrom(tab, n) ==
  UNION { { es \in { <<[k |-> key, v |-> v]>> \o rest :
                      key \in KeyStrings, v \in tab[c].vals, rest \in tab[n - c + 1].lists } :
            \A i \in 2..Len(es) : es[i].k # es[1].k }
        : c \in 1..n }

RECURSIVE SizeTable(_, _)
SizeTable(tab, n) ==
  IF n > MaxSize THEN tab
  ELSE LET lists == EntryListsFrom(tab, n)
       IN SizeTable(Append(tab, [lists |-> lists, vals |-> {Obj(es) : es \in lists}]), n + 1)

Values ==
  LET tab == SizeTable(<<[lists |-> {<<>>}, vals |-> Leaves \cup {EmptyObj}]>>, 1)
  IN UNION { tab[i].vals : i \in 1..Len(tab) }
     \cup {Str(s) : s \in TopStrings} \cup {Num, Null}

\* an archived review as the store holds it: {payload: <base64 text>}
ArchiveValues == { Obj(<<[k |-> <<"payload">>, v |-> Str(<<"a">>)]>>) }

\* the user maps of a run: none given (identity mode), or an explicit one
ExplicitMaps ==
  { EmptyMap,
    [k \in {"github:2"} |-> "github:3"],
    [k \in {"github:2", "github:3"} |-> IF k = "github:2" THEN "github:3" ELSE "github:4"],
    [k \in {"github:2", "github:3"} |-> IF k = "github:2" THEN "github:3" ELSE "github:2"] }

WriteKeys == { <<"users", "/", "github:2">> }
ArchiveKeys == { <<"archivedReviews", "/", "r1">> }
\* the flags argument: none, or {placeholdersPresent: <boolean>}
NoFlags == "none"
FlagValues == {"placeholdersPresent:true", "placeholdersPresent:false"}

ProgramState == [identityUserMap |-> identityUserMap, userMap |-> userMap,
                 ghostedUsers |-> ghostedUsers, paceTotal |-> paceTotal]

-----------------------------------------------------------------------------
(* The extraction run: phases, the datastore it reads, forEachLimit *)

\* most seed repositories of a run
MaxRepos == 2
\* how many items more than the limit a scheduled collection may hold
MaxOver == 2

\* extract(), lines 309-320: what it awaits, in order
PhaseOrder == <<"system", "organizations", "repositories", "rules", "uniq",
                "reviews", "linemaps", "filemaps", "basemaps", "users", "end">>
Phases == {PhaseOrder[i] : i \in 1..Len(PhaseOrder)}
\* the phases that hand a collection to forEachLimit / forEachOfLimit
ScheduledPhases == {"organizations", "repositories", "rules", "reviews",
                    "linemaps", "filemaps", "basemaps", "users"}
AuxPhases == {"linemaps", "filemaps", "basemaps"}
Idx(p) == CHOOSE i \in 1..Len(PhaseOrder) : PhaseOrder[i] = p
Prev(p) == PhaseOrder[Idx(p) - 1]

\* the limit of the review phases, whatever the phase
LimitOfReviews(p) == 25

\* the limit each phase passes to forEachLimit (lines 403, 423, 457, 468, 551,
\* 561, 571, 581)
Limit(p) ==
  CASE p = "organizations" -> 5
    [] p \in {"repositories", "rules"} -> 10
    [] OTHER -> 25

\* "owner/repo" seed names, split at the slash as lines 424 and 458 do
RepoName(o, r) == [owner |-> o, repo |-> r]
AllRepoNames == << RepoName("acme", "widgets"), RepoName("beta", "tools"),
                   RepoName("acme", "gadgets"), RepoName("beta", "utils") >>
SeedLists == { SubSeq(AllRepoNames, 1, n) : n \in 0..MaxRepos }
OrgUniverse == {"acme", "beta"}
ReviewKeyUniverse == {"r1", "r2", "r3"}

\* line 287: const orgNames = _(repoNames).map(owner part).uniq().value()
OrgNames == Uniq([i \in 1..Len(repoNames) |-> repoNames[i].owner])

\* a repository as the store holds it: its pullRequests and oldPullRequests
\* maps are lists of [pr, key] in the order _.values and _.forEach visit them
PR(n, k) == [pr |-> n, key |-> k]
NoRepository == [exists |-> FALSE, pullRequests |-> <<>>, oldPullRequests |-> <<>>]
RepositoryOptions ==
  { NoRepository,
    [exists |-> TRUE, pullRequests |-> <<PR(1, "r1"), PR(2, "r2")>>,
                      oldPullRequests |-> <<PR(3, "r1")>>],
    [exists |-> TRUE, pullRequests |-> <<PR(1, "r3")>>,
                      oldPullRequests |-> <<PR(2, "r2")>>],
    [exists |-> TRUE, pullRequests |-> <<>>, oldPullRequests |-> <<>>] }

\* _.values(repository.pullRequests), _.values(repository.oldPullRequests)
PullRequestValues(repository) ==
  [i \in 1..Len(repository.pullRequests) |-> repository.pullRequests[i].key]
  \o [i \in 1..Len(repository.oldPullRequests) |-> repository.oldPullRequests[i].key]

\* everything of the store but the repositories, and the user map of the run
EverythingPresent ==
  [system |-> "ok",
   orgs |-> [o \in OrgUniverse |-> "autoConnect"],
   rules |-> {AllRepoNames[i] : i \in 1..Len(AllRepoNames)},
   reviews |-> [k \in ReviewKeyUniverse |-> "live"],
   aux |-> AuxPhases \X ReviewKeyUniverse,
   users |-> UserKeys,
   userMap |-> [k \in {"github:2", "github:3"} |->
                  IF k = "github:2" THEN "github:3" ELSE "github:1"]]
NothingPresent ==
  [system |-> "ok",
   orgs |-> [o \in OrgUniverse |-> "absent"],
   rules |-> {},
   reviews |-> [k \in ReviewKeyUniverse |-> "missing"],
   aux |-> {},
   users |-> {},
   userMap |-> EmptyMap]
SomePresent ==
  [system |-> "ok",
   orgs |-> [o \in OrgUniverse |-> IF o = "acme" THEN "plain" ELSE "onlyOwners"],
   rules |-> {AllRepoNames[1]},
   reviews |-> [k \in ReviewKeyUniverse |->
                  IF k = "r1" THEN "live" ELSE IF k = "r2" THEN "archived" ELSE "missing"],
   aux |-> {<<"linemaps", "r1">>, <<"filemaps", "r2">>, <<"basemaps", "r3">>},
   users |-> {"github:3"},
   userMap |-> [k \in {"github:2", "github:3"} |->
                  IF k = "github:2" THEN "github:3" ELSE "github:4"]]
BadSystem == [EverythingPresent EXCEPT !.system = "bad"]
NoSystem == [EverythingPresent EXCEPT !.system = "absent"]
BadBang == [NothingPresent EXCEPT !.system = "badBang"]
BlankStar == [NothingPresent EXCEPT !.system = "blankStar"]
RestOptions == {EverythingPresent, NothingPresent, SomePresent, BadSystem, NoSystem,
                BadBang, BlankStar}

\* system.star and system.bang of the System records of the store options:
\* "ok" holds both sentinels, "bad" holds a star and "badBang" a bang that was
\* decrypted with another key, "blankStar" holds the empty string as its star
Star(system) ==
  CASE system \in {"ok", "badBang"} -> "*"
    [] system = "bad" -> "x"
    [] system = "blankStar" -> ""
Bang(system) == IF system = "badBang" THEN "y" ELSE "!"
\* a check that lets every record pass
BadOrMissingKeyNever(system) == FALSE
\* line 391: system.star && system.star !== '*' || system.bang && system.bang !== '!'
BadOrMissingKey(system) ==
  \/ Star(system) # "" /\ Star(system) # "*"
  \/ Bang(system) # "" /\ Bang(system) # "!"

\* line 581: the keys of userMap in the order forEachOfLimit visits them
UserKeySeq == <<"github:1", "github:2", "github:3", "github:4">>
UserList == SelectSeq(UserKeySeq, LAMBDA k : k \in DOMAIN userMap)

\* forEachLimit (async): may another worker be started
CanStart(s, limit) == s.running < limit /\ ~s.done

RECURSIVE Replenish(_, _, _)
\* forEachLimit (async), replenish(): start workers while the limit allows and
\* items are left; the first time no item is left the iteration is done
Replenish(s, limit, n) ==
  IF ~CanStart(s, limit) THEN s
  ELSE IF s.next > n THEN [s EXCEPT !.done = TRUE]
  ELSE Replenish([s EXCEPT !.next = @ + 1, !.running = @ + 1], limit, n)

\* forEachLimit (async), iterateeCallback(err): one worker called back
IterateeCallback(s, limit, n, err) ==
  LET s1 == [s EXCEPT !.running = @ - 1]
  IN IF err THEN [s1 EXCEPT !.done = TRUE]
     ELSE IF s1.done THEN s1
     ELSE Replenish(s1, limit, n)

NewSched == [next |-> 1, running |-> 0, done |-> FALSE]
\* logUnmappedUsers has not called mapLimit
NotLogging == [sched |-> NewSched, wk |-> <<>>]
\* the iteration called back without an error: callback(null)
CalledBack(s) == s.done /\ s.running <= 0

PipelineIdle ==
  /\ store = [repositories |-> <<>>, rest |-> NothingPresent]
  /\ repoNames = <<>>
  /\ status = [p \in Phases |-> "notStarted"]
  /\ coll = [p \in Phases |-> <<>>]
  /\ sched = [p \in Phases |-> NewSched]
  /\ wk = [p \in Phases |-> <<>>]
  /\ reviewKeys = <<>>
  /\ reversePullRequests = EmptyMap
  /\ missingReviewKeys = <<>>
  /\ unknownUsers = <<>>
  /\ written = EmptyBag
  /\ issued = [p \in Phases |-> 0]
  /\ paceOps = 0
  /\ exit = "running"
  /\ handed = <<>>
  /\ finished = 0
  /\ unmapped = NotLogging

-----------------------------------------------------------------------------
(* The rewriter specification: one writeItem call, then the written value  *)
(* rewritten once more by a run in identity mode                           *)

RewriteInit ==
  /\ identityUserMap \in BOOLEAN
  /\ userMap \in IF identityUserMap THEN {EmptyMap} ELSE ExplicitMaps
  /\ ghostedUsers = <<>>
  /\ paceTotal = 0
  /\ out = <<>>
  /\ rpc = "ready"
  /\ wiKey = <<>>
  /\ wiValue = Null
  /\ wiResult = Null
  /\ wiMap = EmptyMap
  /\ reResult = Null
  /\ calls = <<>>
  /\ PipelineIdle
  /\ HarnessIdle

\* lines 630-639: async function writeItem(key, value, flags)
WriteItem(key, value, flags) ==
  /\ rpc = "ready"
  /\ wiKey' = key
  /\ wiValue' = value
  /\ wiMap' = userMap
  /\ IF value = Null
       THEN /\ rpc' = "skipped"
            /\ UNCHANGED <<userMap, ghostedUsers, paceTotal, out, wiResult>>
       ELSE LET r == MapAllUserKeys(ProgramState, value, key)
            IN /\ rpc' = "written"
               /\ userMap' = r.st.userMap
               /\ ghostedUsers' = r.st.ghostedUsers
               /\ paceTotal' = r.st.paceTotal
               /\ wiResult' = r.val
               /\ out' = Append(out, [key |-> key, value |-> r.val, flags |-> flags])
  /\ UNCHANGED <<identityUserMap, reResult, calls>>
  /\ UNCHANGED <<pipelineVars, harnessVars>>

\* mapAllUserKeys applied to the written value by a fresh run in identity mode
RewriteAgain ==
  /\ rpc = "written"
  /\ rpc' = "twice"
  /\ LET fresh == [identityUserMap |-> TRUE, userMap |-> EmptyMap,
                   ghostedUsers |-> <<>>, paceTotal |-> 0]
     IN reResult' = MapAllUserKeys(fresh, wiResult, wiKey).val
  /\ UNCHANGED <<identityUserMap, userMap, ghostedUsers, paceTotal, out,
                 wiKey, wiValue, wiResult, wiMap, calls>>
  /\ UNCHANGED <<pipelineVars, harnessVars>>

RewriteNext ==
  \/ /\ rpc = "ready"
     /\ \/ \E key \in WriteKeys, value \in Values : WriteItem(key, value, NoFlags)
        \/ \E key \in ArchiveKeys, value \in ArchiveValues, flags \in FlagValues :
             WriteItem(key, value, flags)
  \/ RewriteAgain

SpecRewrite == RewriteInit /\ [][RewriteNext]_vars

-----------------------------------------------------------------------------
(* The mapper specification: a sequence of direct mapUserKey calls *)

\* lines 665-673 called on userKey with a context
MapUserKeyCall(userKey, context) ==
  /\ rpc = "ready"
  /\ Len(calls) < MaxCalls
  /\ LET r == MapUserKey(ProgramState, userKey, context)
     IN /\ userMap' = r.st.userMap
        /\ ghostedUsers' = r.st.ghostedUsers
        /\ paceTotal' = r.st.paceTotal
        /\ calls' = Append(calls, [key |-> userKey, result |-> r.val])
  /\ UNCHANGED <<identityUserMap, out, rpc, wiKey, wiValue, wiResult, wiMap, reResult>>
  /\ UNCHANGED <<pipelineVars, harnessVars>>

MapperNext ==
  \E userKey \in UserKeys, context \in WriteKeys : MapUserKeyCall(userKey, context)

SpecMapper == RewriteInit /\ [][MapperNext]_vars

-----------------------------------------------------------------------------
(* The extraction run: extract() and the workers of its phases *)

PipelineInit ==
  /\ repoNames \in SeedLists
  /\ store \in [repositories : [{repoNames[i] : i \in 1..Len(repoNames)} -> RepositoryOptions],
                rest : RestOptions]
  /\ identityUserMap = FALSE
  /\ userMap = store.rest.userMap
  /\ ghostedUsers = <<>>
  \* line 294: Pace(1 + 2 + orgNames.length + 2 * repoNames.length + _.size(userMap))
  /\ paceTotal = 1 + 2 + Len(OrgNames) + 2 * Len(repoNames) + Cardinality(DOMAIN userMap)
  /\ out = <<>>
  /\ rpc = "none"
  /\ wiKey = <<>>
  /\ wiValue = Null
  /\ wiResult = Null
  /\ wiMap = EmptyMap
  /\ reResult = Null
  /\ calls = <<>>
  /\ status = [p \in Phases |-> "notStarted"]
  /\ coll = [p \in Phases |-> <<>>]
  /\ sched = [p \in Phases |-> NewSched]
  /\ wk = [p \in Phases |-> <<>>]
  /\ reviewKeys = <<>>
  /\ reversePullRequests = EmptyMap
  /\ missingReviewKeys = <<>>
  /\ unknownUsers = <<>>
  /\ written = EmptyBag
  /\ issued = [p \in Phases |-> 0]
  /\ paceOps = 0
  /\ exit = "running"
  /\ handed = <<>>
  /\ finished = 0
  /\ unmapped = NotLogging
  /\ HarnessIdle

Running == exit = "running"

\* an await of extract() on the phase p has resumed
AwaitedNotYet(p) == status[p] # "notStarted"
Awaited(p) == status[p] = "resolved"

\* extract() has reached the call of phase p
MayCall(p) ==
  /\ Running
  /\ status[p] = "notStarted"
  /\ IF Idx(p) = 1 THEN TRUE ELSE Awaited(Prev(p))

\* the collection each phase hands to forEachLimit
Collection(p) ==
  CASE p = "organizations" -> OrgNames
    [] p \in {"repositories", "rules"} -> repoNames
    [] p = "users" -> UserList
    [] OTHER -> reviewKeys

\* where a worker is once its synchronous start has run: waiting for its
\* first store request, or (line 582) returned at once
StartPc(p, item) ==
  IF p = "users" /\ userMap[item] = GhostKey THEN "returned" ELSE "get"

StartedBy(s1, s2) == s1.next .. (s2.next - 1)
Gets(p, c, started) == Cardinality({j \in started : StartPc(p, c[j]) = "get"})
At(p, i, pc) ==
  /\ Running
  /\ status[p] = "running"
  /\ i \in DOMAIN wk[p]
  /\ wk[p][i] = pc

\* what no step of the run changes
RunFrame == UNCHANGED <<harnessVars, store, repoNames, handed, finished, identityUserMap,
                        userMap, out, rpc, wiKey, wiValue, wiResult, wiMap, reResult, calls>>
PipelineFrame == RunFrame /\ UNCHANGED <<ghostedUsers, unmapped>>

\* lines 401-403 (and 421-423, 455-457, 466-468, 549-551, 559-561, 569-571,
\* 579-581): return at once on an empty collection, else forEachLimit starts
\* the first workers
CallPhase(p) ==
  /\ p \in ScheduledPhases
  /\ MayCall(p)
  /\ LET c == Collection(p)
         s == Replenish(NewSched, Limit(p), Len(c))
         started == StartedBy(NewSched, s)
     IN IF c = <<>>
        THEN /\ status' = [status EXCEPT ![p] = "resolved"]
             /\ UNCHANGED <<coll, sched, wk, issued>>
        ELSE /\ status' = [status EXCEPT ![p] = "running"]
             /\ coll' = [coll EXCEPT ![p] = c]
             /\ sched' = [sched EXCEPT ![p] = s]
             /\ wk' = [wk EXCEPT ![p] =
                         [j \in 1..Len(c) |-> IF j \in started THEN StartPc(p, c[j]) ELSE "idle"]]
             /\ issued' = [issued EXCEPT ![p] = @ + Gets(p, c, started)]
  /\ UNCHANGED <<reviewKeys, reversePullRequests, missingReviewKeys, unknownUsers,
                 written, paceOps, exit, paceTotal>>
  /\ PipelineFrame

\* the worker of item i returns: forEachLimit's callback runs, starts the next
\* worker if one is due, and resolves the phase after the last one
Finish(p, i) ==
  LET c == coll[p]
      s2 == IterateeCallback(sched[p], Limit(p), Len(c), FALSE)
      started == StartedBy(sched[p], s2)
  IN /\ sched' = [sched EXCEPT ![p] = s2]
     /\ wk' = [wk EXCEPT ![p] =
                 [j \in 1..Len(c) |-> IF j = i THEN "done"
                                      ELSE IF j \in started THEN StartPc(p, c[j])
                                      ELSE wk[p][j]]]
     /\ issued' = [issued EXCEPT ![p] = @ + Gets(p, c, started)]
     /\ status' = IF CalledBack(s2) THEN [status EXCEPT ![p] = "resolved"] ELSE status
     /\ UNCHANGED exit

\* the worker of item i issues n requests and waits at pc2
Continue(p, i, pc2, n) ==
  /\ wk' = [wk EXCEPT ![p][i] = pc2]
  /\ issued' = [issued EXCEPT ![p] = @ + n]
  /\ UNCHANGED <<sched, status, exit>>

\* writeItem reached out.write with a line for key k
Wrote(k) == written' = written (+) SetToBag({k})

\* the rejection is printed but the process is left running
RejectKeepsRunning(p, i, how) ==
  /\ status' = [status EXCEPT ![p] = "rejected"]
  /\ wk' = [wk EXCEPT ![p][i] = how]
  /\ UNCHANGED <<sched, issued, exit>>

\* lines 335-342: worker i of phase p threw (how: a store request "failed",
\* or the code "threw" on what it read); forEachLimit calls back with the
\* error, extract() rejects, process.exit(1)
Reject(p, i, how) ==
  /\ status' = [status EXCEPT ![p] = "rejected"]
  /\ wk' = [wk EXCEPT ![p][i] = how]
  /\ sched' = IF p \in ScheduledPhases
                THEN [sched EXCEPT ![p] = IterateeCallback(@, Limit(p), Len(coll[p]), TRUE)]
                ELSE sched
  /\ exit' = "1"
  /\ UNCHANGED issued

\* lines 388-390: extractSystem asks for /system
SystemCall ==
  /\ MayCall("system")
  /\ status' = [status EXCEPT !["system"] = "running"]
  /\ wk' = [wk EXCEPT !["system"] = <<"get">>]
  /\ issued' = [issued EXCEPT !["system"] = @ + 1]
  /\ UNCHANGED <<coll, sched, reviewKeys, reversePullRequests, missingReviewKeys,
                 unknownUsers, written, paceOps, exit, paceTotal>>
  /\ PipelineFrame

\* lines 391-394: the encryption check (reading system.star of an absent
\* record throws as well), then the first writeItem
SystemGetReturns ==
  /\ At("system", 1, "get")
  /\ IF store.rest.system = "absent" \/ BadOrMissingKey(store.rest.system)
       THEN /\ Reject("system", 1, "threw")
            /\ UNCHANGED written
       ELSE /\ Continue("system", 1, "write", 1)
            /\ Wrote(<<"system", "oldestUsedClientBuild">>)
  /\ UNCHANGED <<coll, reviewKeys, reversePullRequests, missingReviewKeys,
                 unknownUsers, paceOps, paceTotal>>
  /\ PipelineFrame

\* lines 395-396
SystemWriteReturns ==
  /\ At("system", 1, "write")
  /\ Continue("system", 1, "write2", 1)
  /\ Wrote(<<"system", "oldestUsedServerBuild">>)
  /\ paceOps' = paceOps + 1
  /\ UNCHANGED <<coll, reviewKeys, reversePullRequests, missingReviewKeys,
                 unknownUsers, paceTotal>>
  /\ PipelineFrame

\* line 397, and extractSystem returns
SystemWrite2Returns ==
  /\ At("system", 1, "write2")
  /\ wk' = [wk EXCEPT !["system"] = <<"done">>]
  /\ status' = [status EXCEPT !["system"] = "resolved"]
  /\ paceOps' = paceOps + 1
  /\ UNCHANGED <<coll, sched, issued, exit, reviewKeys, reversePullRequests,
                 missingReviewKeys, unknownUsers, written, paceTotal>>
  /\ PipelineFrame

\* lines 404-409 and 416: the organization arrived
OrgGetReturns(i) ==
  /\ At("organizations", i, "get")
  /\ LET org == coll["organizations"][i]
     IN IF store.rest.orgs[org] \in {"plain", "autoConnect"}
        THEN /\ Continue("organizations", i, "write", 1)
             /\ Wrote(<<"organizations", org>>)
             /\ UNCHANGED paceOps
        ELSE /\ Finish("organizations", i)
             /\ paceOps' = paceOps + 1
             /\ UNCHANGED written
  /\ UNCHANGED <<coll, reviewKeys, reversePullRequests, missingReviewKeys,
                 unknownUsers, paceTotal>>
  /\ PipelineFrame

\* lines 410-416: after the organization was written
OrgWriteReturns(i) ==
  /\ At("organizations", i, "write")
  /\ LET org == coll["organizations"][i]
     IN IF store.rest.orgs[org] = "autoConnect"
        THEN /\ Continue("organizations", i, "write2", 1)
             /\ Wrote(<<"queues", "memberships", org, "organization">>)
             /\ UNCHANGED paceOps
        ELSE /\ Finish("organizations", i)
             /\ paceOps' = paceOps + 1
             /\ UNCHANGED written
  /\ UNCHANGED <<coll, reviewKeys, reversePullRequests, missingReviewKeys,
                 unknownUsers, paceTotal>>
  /\ PipelineFrame

\* line 416, after the queue entry was written
OrgQueueWriteReturns(i) ==
  /\ At("organizations", i, "write2")
  /\ Finish("organizations", i)
  /\ paceOps' = paceOps + 1
  /\ UNCHANGED <<coll, reviewKeys, reversePullRequests, missingReviewKeys,
                 unknownUsers, written, paceTotal>>
  /\ PipelineFrame

\* line 438: the list the collected keys are appended to
ConcatOverwrites(list, values) == values
Concat(list, values) == list \o values

RECURSIVE RecordPullRequests(_, _, _)
\* lines 440-445: reversePullRequests[reviewKey] = `${repoName}#${prNumber}`
RecordPullRequests(map, repoName, prs) ==
  IF prs = <<>> THEN map
  ELSE RecordPullRequests(
         Put(map, Head(prs).key, <<repoName.owner, repoName.repo, Head(prs).pr>>),
         repoName, Tail(prs))

\* lines 425-450: the repository arrived
RepoGetReturns(i) ==
  /\ At("repositories", i, "get")
  /\ LET repoName == coll["repositories"][i]
         repository == store.repositories[repoName]
     IN IF repository.exists
        THEN /\ reviewKeys' = Concat(reviewKeys, PullRequestValues(repository))
             /\ reversePullRequests' =
                  RecordPullRequests(
                    RecordPullRequests(reversePullRequests, repoName, repository.pullRequests),
                    repoName, repository.oldPullRequests)
             /\ Continue("repositories", i, "write", 1)
             /\ Wrote(<<"repositories", repoName.owner, repoName.repo>>)
             /\ UNCHANGED paceOps
        ELSE /\ Finish("repositories", i)
             /\ paceOps' = paceOps + 1
             /\ UNCHANGED <<reviewKeys, reversePullRequests, written>>
  /\ UNCHANGED <<coll, missingReviewKeys, unknownUsers, paceTotal>>
  /\ PipelineFrame

\* lines 459-460: the rule arrived; writeItem writes nothing for a missing one
RuleGetReturns(i) ==
  /\ At("rules", i, "get")
  /\ LET repoName == coll["rules"][i]
     IN IF repoName \in store.rest.rules
        THEN /\ Continue("rules", i, "write", 1)
             /\ Wrote(<<"rules", repoName.owner, repoName.repo>>)
        ELSE /\ Continue("rules", i, "write", 0)
             /\ UNCHANGED written
  /\ UNCHANGED <<coll, reviewKeys, reversePullRequests, missingReviewKeys,
                 unknownUsers, paceOps, paceTotal>>
  /\ PipelineFrame

\* line 470: if (review)
ReviewFound(reviewKey) == store.rest.reviews[reviewKey] = "live"
\* the archive is never found
ArchiveFoundNever(reviewKey) == FALSE
\* line 475: if (archive)
ArchiveFound(reviewKey) == store.rest.reviews[reviewKey] = "archived"

\* lines 469-474: the review arrived, or it did not and its archive is asked for
ReviewGetReturns(i) ==
  /\ At("reviews", i, "get")
  /\ LET reviewKey == coll["reviews"][i]
     IN IF ReviewFound(reviewKey)
        THEN /\ Continue("reviews", i, "write", 1)
             /\ Wrote(<<"reviews", reviewKey>>)
        ELSE /\ Continue("reviews", i, "get2", 1)
             /\ UNCHANGED written
  /\ UNCHANGED <<coll, reviewKeys, reversePullRequests, missingReviewKeys,
                 unknownUsers, paceOps, paceTotal>>
  /\ PipelineFrame

\* lines 475-487: the archive arrived, or the review is missing
ArchiveGetReturns(i) ==
  /\ At("reviews", i, "get2")
  /\ LET reviewKey == coll["reviews"][i]
     IN IF ArchiveFound(reviewKey)
        THEN /\ Continue("reviews", i, "write", 1)
             /\ Wrote(<<"archivedReviews", reviewKey>>)
             /\ UNCHANGED <<missingReviewKeys, paceOps>>
        ELSE /\ missingReviewKeys' = Append(missingReviewKeys, reviewKey)
             /\ Finish("reviews", i)
             /\ paceOps' = paceOps + 1
             /\ UNCHANGED written
  /\ UNCHANGED <<coll, reviewKeys, reversePullRequests, unknownUsers, paceTotal>>
  /\ PipelineFrame

\* lines 552-553, 562-563, 572-573: the linemap, filemap or basemap arrived
AuxGetReturns(p, i) ==
  /\ p \in AuxPhases
  /\ At(p, i, "get")
  /\ LET reviewKey == coll[p][i]
     IN IF <<p, reviewKey>> \in store.rest.aux
        THEN /\ Continue(p, i, "write", 1)
             /\ Wrote(<<p, reviewKey>>)
        ELSE /\ Continue(p, i, "write", 0)
             /\ UNCHANGED written
  /\ UNCHANGED <<coll, reviewKeys, reversePullRequests, missingReviewKeys,
                 unknownUsers, paceOps, paceTotal>>
  /\ PipelineFrame

\* lines 583-624: the user arrived (a run without --merge)
UserGetReturns(i) ==
  /\ At("users", i, "get")
  /\ LET oldUserKey == coll["users"][i]
     IN IF oldUserKey \in store.rest.users
        THEN /\ Continue("users", i, "write", 1)
             /\ Wrote(<<"users", userMap[oldUserKey]>>)
             /\ UNCHANGED unknownUsers
        ELSE /\ unknownUsers' = Append(unknownUsers, oldUserKey)
             /\ Finish("users", i)
             /\ UNCHANGED written
  /\ UNCHANGED <<coll, reviewKeys, reversePullRequests, missingReviewKeys,
                 paceOps, paceTotal>>
  /\ PipelineFrame

\* line 582: the worker of a user mapped to github:1 returned when it started
UserSkipped(i) ==
  /\ At("users", i, "returned")
  /\ Finish("users", i)
  /\ UNCHANGED <<coll, reviewKeys, reversePullRequests, missingReviewKeys,
                 unknownUsers, written, paceOps, paceTotal>>
  /\ PipelineFrame

\* lines 450, 461, 487, 554, 564, 574, 626: the await of writeItem resumed,
\* pace.op(), and the worker returns
WriteReturns(p, i) ==
  /\ p \in ScheduledPhases \ {"organizations"}
  /\ At(p, i, "write")
  /\ Finish(p, i)
  /\ paceOps' = paceOps + 1
  /\ UNCHANGED <<coll, reviewKeys, reversePullRequests, missingReviewKeys,
                 unknownUsers, written, paceTotal>>
  /\ PipelineFrame

\* a store request of worker i failed: the worker throws
GetFails(p, i) ==
  /\ p \in ScheduledPhases \cup {"system"}
  /\ At(p, i, "get") \/ At(p, i, "get2")
  /\ Reject(p, i, "failed")
  /\ UNCHANGED <<coll, reviewKeys, reversePullRequests, missingReviewKeys,
                 unknownUsers, written, paceOps, paceTotal>>
  /\ PipelineFrame

\* lines 313-314: reviewKeys = _.uniq(reviewKeys); pace.total += 4 * length
Dedup ==
  /\ MayCall("uniq")
  /\ reviewKeys' = Uniq(reviewKeys)
  /\ paceTotal' = paceTotal + 4 * Len(reviewKeys')
  /\ status' = [status EXCEPT !["uniq"] = "resolved"]
  /\ UNCHANGED <<coll, sched, wk, issued, exit, reversePullRequests,
                 missingReviewKeys, unknownUsers, written, paceOps>>
  /\ PipelineFrame

\* the most entries the ghost log holds when the run reaches its end
MaxGhosts == 2

\* entries mapUserKey pushes at line 670: {userKey, context}
GhostEntries ==
  { [userKey |-> "github:5", context |-> <<"reviews", "/", "r1">>],
    [userKey |-> "github:6", context |-> <<"reviews", "/", "r1">>],
    [userKey |-> "github:5", context |-> <<"users", "/", "github:3">>] }

\* the ghost log the writeItem calls of the run have built by line 320 (the
\* content of the records is not modelled in this specification): empty when
\* no line was written, else any log of up to MaxGhosts entries
GhostLogs ==
  IF written = EmptyBag THEN {<<>>}
  ELSE UNION {[1..n -> GhostEntries] : n \in 0..MaxGhosts}

RECURSIVE UniqBy(_)
\* _.uniqBy(ghostedUsers, 'userKey'): the first entry of every user key
UniqBy(log) ==
  IF log = <<>> THEN <<>>
  ELSE LET front == UniqBy(SubSeq(log, 1, Len(log) - 1))
           last == log[Len(log)]
       IN IF \E i \in 1..Len(front) : front[i].userKey = last.userKey THEN front
          ELSE Append(front, last)

\* line 346, if (!ghostedUsers.length) return, with a test that never holds
NothingToLogNever(log) == FALSE
\* line 346: if (!ghostedUsers.length) return
NothingToLog(log) == Len(log) = 0

\* line 320: out.end() is called
CallEnd ==
  /\ MayCall("end")
  /\ status' = [status EXCEPT !["end"] = "running"]
  /\ ghostedUsers' \in GhostLogs
  /\ UNCHANGED <<coll, sched, wk, issued, exit, reviewKeys, reversePullRequests,
                 missingReviewKeys, unknownUsers, written, paceOps, paceTotal, unmapped>>
  /\ RunFrame

\* lines 320-336 and 345-349: the stream is closed; pace.op(); the summary
\* and the lists of missing reviews and owners are printed; logUnmappedUsers
\* returns at once on an empty ghost log, and then the remaining lists are
\* printed and process.exit(0) is called; else it asks for the user names
EndReturns ==
  /\ Running
  /\ status["end"] = "running"
  /\ status' = [status EXCEPT !["end"] = "resolved"]
  /\ paceOps' = paceOps + 1
  /\ IF NothingToLog(ghostedUsers)
       THEN /\ exit' = "0"
            /\ UNCHANGED <<ghostedUsers, unmapped>>
       ELSE LET log == UniqBy(ghostedUsers)
                s == Replenish(NewSched, 5, Len(log))
            IN /\ ghostedUsers' = log
               /\ unmapped' = [sched |-> s,
                               wk |-> [j \in 1..Len(log) |->
                                         IF j \in StartedBy(NewSched, s) THEN "get"
                                         ELSE "waiting"]]
               /\ UNCHANGED exit
  /\ UNCHANGED <<coll, sched, wk, issued, reviewKeys, reversePullRequests,
                 missingReviewKeys, unknownUsers, written, paceTotal>>
  /\ RunFrame

\* a worker of logUnmappedUsers waits for users/<userKey>/core/public
Logging(i) ==
  /\ Running
  /\ status["end"] = "resolved"
  /\ i \in DOMAIN unmapped.wk
  /\ unmapped.wk[i] = "get"

LogFrame == UNCHANGED <<coll, sched, wk, issued, status, reviewKeys, reversePullRequests,
                        missingReviewKeys, unknownUsers, written, paceOps, paceTotal,
                        ghostedUsers>>

\* lines 349-362 and 331-336: the public record of a ghosted user arrived (or
\* there is none: the worker returns a name either way); after the last one
\* the list is printed, then the lists of unknown users and broken files,
\* and process.exit(0) is called
LogGetReturns(i) ==
  /\ Logging(i)
  /\ LET n == Len(unmapped.wk)
         s2 == IterateeCallback(unmapped.sched, 5, n, FALSE)
         started == StartedBy(unmapped.sched, s2)
     IN /\ unmapped' = [sched |-> s2,
                        wk |-> [j \in 1..n |-> IF j = i THEN "done"
                                               ELSE IF j \in started THEN "get"
                                               ELSE unmapped.wk[j]]]
        /\ exit' = IF CalledBack(s2) THEN "0" ELSE exit
  /\ LogFrame
  /\ RunFrame

\* lines 350 and 337-342: a request of logUnmappedUsers failed; mapLimit
\* calls back with the error, extract() rejects, process.exit(1)
LogGetFails(i) ==
  /\ Logging(i)
  /\ unmapped' = [sched |-> IterateeCallback(unmapped.sched, 5, Len(unmapped.wk), TRUE),
                  wk |-> [unmapped.wk EXCEPT ![i] = "failed"]]
  /\ exit' = "1"
  /\ LogFrame
  /\ RunFrame

Items(p) == 1..Len(coll[p])

Next ==
  \/ SystemCall
  \/ SystemGetReturns
  \/ SystemWriteReturns
  \/ SystemWrite2Returns
  \/ \E p \in ScheduledPhases : CallPhase(p)
  \/ \E i \in Items("organizations") : OrgGetReturns(i)
  \/ \E i \in Items("organizations") : OrgWriteReturns(i)
  \/ \E i \in Items("organizations") : OrgQueueWriteReturns(i)
  \/ \E i \in Items("repositories") : RepoGetReturns(i)
  \/ \E i \in Items("rules") : RuleGetReturns(i)
  \/ \E i \in Items("reviews") : ReviewGetReturns(i)
  \/ \E i \in Items("reviews") : ArchiveGetReturns(i)
  \/ \E p \in AuxPhases : \E i \in Items(p) : AuxGetReturns(p, i)
  \/ \E i \in Items("users") : UserGetReturns(i)
  \/ \E i \in Items("users") : UserSkipped(i)
  \/ \E p \in ScheduledPhases : \E i \in Items(p) : WriteReturns(p, i)
  \/ \E p \in ScheduledPhases \cup {"system"} : \E i \in 1..Len(wk[p]) : GetFails(p, i)
  \/ Dedup
  \/ CallEnd
  \/ EndReturns
  \/ \E i \in DOMAIN unmapped.wk : LogGetReturns(i)
  \/ \E i \in DOMAIN unmapped.wk : LogGetFails(i)

Spec == PipelineInit /\ [][Next]_vars

-----------------------------------------------------------------------------
(* The scheduler specification: one forEachLimit call of one phase over a   *)
(* collection of any size up to MaxOver items more than the phase's limit,  *)
(* with workers that return or throw in any order                           *)

SchedInit ==
  /\ identityUserMap = FALSE
  /\ userMap = EmptyMap
  /\ ghostedUsers = <<>>
  /\ paceTotal = 0
  /\ out = <<>>
  /\ rpc = "none"
  /\ wiKey = <<>>
  /\ wiValue = Null
  /\ wiResult = Null
  /\ wiMap = EmptyMap
  /\ reResult = Null
  /\ calls = <<>>
  /\ store = [repositories |-> <<>>, rest |-> NothingPresent]
  /\ repoNames = <<>>
  /\ status = [p \in Phases |-> "notStarted"]
  /\ \E p \in ScheduledPhases : \E n \in 0..(Limit(p) + MaxOver) :
       coll = [q \in Phases |-> IF q = p THEN [i \in 1..n |-> i] ELSE <<>>]
  /\ sched = [p \in Phases |-> NewSched]
  /\ wk = [p \in Phases |-> <<>>]
  /\ reviewKeys = <<>>
  /\ reversePullRequests = EmptyMap
  /\ missingReviewKeys = <<>>
  /\ unknownUsers = <<>>
  /\ written = EmptyBag
  /\ issued = [p \in Phases |-> 0]
  /\ paceOps = 0
  /\ exit = "running"
  /\ handed = <<>>
  /\ finished = 0
  /\ unmapped = NotLogging
  /\ HarnessIdle

\* the item indexes handed out between two states of the iteration, in order
HandedBy(s1, s2) == [k \in 1..(s2.next - s1.next) |-> s1.next + k - 1]

SchedFrame == UNCHANGED <<harnessVars, rewriteVars, store, repoNames, coll, wk, reviewKeys,
                          reversePullRequests, missingReviewKeys, unknownUsers,
                          written, issued, paceOps, exit, unmapped>>

\* the phase is called: it returns at once on an empty collection, else
\* forEachLimit starts the first workers
SchedCall(p) ==
  /\ \A q \in Phases : status[q] = "notStarted"
  /\ IF coll[p] = <<>> THEN \A q \in Phases : coll[q] = <<>> ELSE TRUE
  /\ LET s == Replenish(NewSched, Limit(p), Len(coll[p]))
     IN IF coll[p] = <<>>
        THEN /\ status' = [status EXCEPT ![p] = "resolved"]
             /\ UNCHANGED <<sched, handed>>
        ELSE /\ status' = [status EXCEPT ![p] = "running"]
             /\ sched' = [sched EXCEPT ![p] = s]
             /\ handed' = handed \o HandedBy(NewSched, s)
  /\ UNCHANGED finished
  /\ SchedFrame

\* one of the workers in flight returns
SchedWorkerReturns(p) ==
  /\ status[p] \in {"running", "rejected"}
  /\ finished < Len(handed)
  /\ LET s2 == IterateeCallback(sched[p], Limit(p), Len(coll[p]), FALSE)
     IN /\ sched' = [sched EXCEPT ![p] = s2]
        /\ handed' = handed \o HandedBy(sched[p], s2)
        /\ status' = IF status[p] = "running" /\ CalledBack(s2)
                       THEN [status EXCEPT ![p] = "resolved"] ELSE status
  /\ finished' = finished + 1
  /\ SchedFrame

\* one of the workers in flight throws: the phase rejects
SchedWorkerFails(p) ==
  /\ status[p] \in {"running", "rejected"}
  /\ finished < Len(handed)
  /\ sched' = [sched EXCEPT ![p] = IterateeCallback(sched[p], Limit(p), Len(coll[p]), TRUE)]
  /\ status' = [status EXCEPT ![p] = "rejected"]
  /\ finished' = finished + 1
  /\ UNCHANGED handed
  /\ SchedFrame

SchedNext ==
  \/ \E p \in ScheduledPhases : SchedCall(p)
  \/ \E p \in ScheduledPhases : SchedWorkerReturns(p)
  \/ \E p \in ScheduledPhases : SchedWorkerFails(p)

SpecSched == SchedInit /\ [][SchedNext]_vars

-----------------------------------------------------------------------------
(* Properties of the scheduler and of the order of the phases *)

\* the limits as the claim states them
ClaimedLimit(p) ==
  CASE p = "organizations" -> 5
    [] p = "repositories" -> 10
    [] p = "rules" -> 10
    [] OTHER -> 25

\* C1: whatever the phase, at most its limit of worker invocations are started
\* and not finished, no item is handed out twice, and a phase that resolved
\* has handed out every item once and seen every worker return.
C1_BoundedScheduler ==
  \A p \in ScheduledPhases :
    status[p] # "notStarted" =>
      /\ Len(handed) - finished <= ClaimedLimit(p)
      /\ \A i, j \in 1..Len(handed) : i # j => handed[i] # handed[j]
      /\ \A i \in 1..Len(handed) : handed[i] \in 1..Len(coll[p])
      /\ status[p] = "resolved" =>
           /\ finished = Len(handed)
           /\ {handed[i] : i \in 1..Len(handed)} = 1..Len(coll[p])

\* C1 witness: a collection larger than the limit was run to the end, no
\* worker having failed.
C1_Witness ==
  \E p \in ScheduledPhases :
    /\ Len(coll[p]) > ClaimedLimit(p)
    /\ status[p] = "resolved"
    /\ finished = Len(coll[p])

\* every worker of phase q was started and has returned
Quiet(q) ==
  /\ status[q] = "resolved"
  /\ \A i \in 1..Len(wk[q]) : wk[q][i] = "done"
  /\ q \in ScheduledPhases => Len(wk[q]) = Len(coll[q])

\* C2: the phases run in the order of PhaseOrder: a phase has issued a store
\* request or a write, or has been entered at all, only once every worker of
\* every earlier phase has returned; and once the first review fetch is issued
\* the review-key list stays what it was when the review phase was called.
C2_PhasesInOrder ==
  /\ \A p \in Phases :
       (issued[p] > 0 \/ status[p] # "notStarted") =>
         \A j \in 1..(Idx(p) - 1) : Quiet(PhaseOrder[j])
  /\ issued["reviews"] > 0 => reviewKeys = coll["reviews"]

\* C2 witness: a run with two repositories and two review keys came to its end
\* after every phase issued requests.
C2_Witness ==
  /\ exit = "0"
  /\ \A p \in ScheduledPhases \cup {"system"} : issued[p] > 0
  /\ Len(repoNames) >= 2
  /\ Len(reviewKeys) >= 2

\* the review keys the store holds for the seed repositories that exist
ReachableKeys ==
  UNION { {PullRequestValues(store.repositories[repoNames[i]])[j] :
             j \in 1..Len(PullRequestValues(store.repositories[repoNames[i]]))} :
          i \in {k \in 1..Len(repoNames) : store.repositories[repoNames[k]].exists} }

\* C3: after the repository phase and the deduplication the review-key list
\* holds every pullRequests and oldPullRequests value of every existing seed
\* repository once, and nothing else, in whatever order the fetches returned.
C3_ReviewKeysCollected ==
  status["uniq"] = "resolved" =>
    /\ {reviewKeys[i] : i \in 1..Len(reviewKeys)} = ReachableKeys
    /\ \A i, j \in 1..Len(reviewKeys) : i # j => reviewKeys[i] # reviewKeys[j]

\* C3 witness: two repositories that share a key were fetched, the second of
\* the seed list returned first, and the list holds the three keys.
C3_Witness ==
  /\ status["uniq"] = "resolved"
  /\ Len(repoNames) >= 2
  /\ store.repositories[repoNames[1]].exists
  /\ store.repositories[repoNames[2]].exists
  /\ Len(reviewKeys) = 3
  /\ reviewKeys[1] = PullRequestValues(store.repositories[repoNames[2]])[1]
  /\ reviewKeys[1] # PullRequestValues(store.repositories[repoNames[1]])[1]

-----------------------------------------------------------------------------
(* Properties of the rewriter and the mapper *)

\* the mapping in force when writeItem was called: new user key of an old one
Eff(k) ==
  IF identityUserMap THEN k
  ELSE IF k \in DOMAIN wiMap THEN wiMap[k] ELSE GhostKey

\* the program state as it was when writeItem was called
CallState == [identityUserMap |-> identityUserMap, userMap |-> wiMap,
              ghostedUsers |-> <<>>, paceTotal |-> 0]
\* a value, or a key, rewritten once
Once(v) == MapAllUserKeys(CallState, v, <<>>).val
OnceKey(k) == Once(Str(k)).s

Rewrote == rpc \in {"written", "twice"}
EntrySet(v) == {v.e[i] : i \in 1..Len(v.e)}
UserKeysIn(s) == {s[i] : i \in {j \in 1..Len(s) : s[j] \in UserKeys}}

\* the user map is injective and maps every user key that occurs in a key of
\* the object given to writeItem (so no two keys are rewritten to the same key)
InjectiveOnKeys ==
  \/ identityUserMap
  \/ /\ \A a, b \in DOMAIN wiMap : wiMap[a] = wiMap[b] => a = b
     /\ \A i \in 1..Len(wiValue.e) : UserKeysIn(wiValue.e[i].k) \subseteq DOMAIN wiMap

\* C4 (as claimed): rewriting an object under an injective map yields exactly
\* one entry per original entry whose rewritten value is not an empty object,
\* stored under the rewritten key with the once-rewritten value; no entry is
\* lost, overwritten or rewritten twice.
C4_EntriesPreserved ==
  (Rewrote /\ IsObject(wiValue) /\ InjectiveOnKeys) =>
    /\ EntrySet(wiResult) =
         { [k |-> OnceKey(en.k), v |-> Once(en.v)] :
             en \in {x \in EntrySet(wiValue) : ~(IsObject(Once(x.v)) /\ IsEmpty(Once(x.v)))} }
    /\ \A i, j \in 1..Len(wiResult.e) : i # j => wiResult.e[i].k # wiResult.e[j].k

RECURSIVE NoEmptyInside(_)
\* no object nested anywhere inside v is empty
NoEmptyInside(v) ==
  \A i \in 1..Len(v.e) :
    /\ ~(IsObject(v.e[i].v) /\ IsEmpty(v.e[i].v))
    /\ NoEmptyInside(v.e[i].v)

\* C5: after mapAllUserKeys returns, no object nested anywhere inside the
\* result is empty.
C5_NoEmptyNested == Rewrote => NoEmptyInside(wiResult)

\* C5 witness: an object came in holding a non-empty object all of whose
\* properties are empty objects; it was emptied by the pruning and is gone.
C5_Witness ==
  /\ rpc = "written"
  /\ IsObject(wiValue)
  /\ \E i \in 1..Len(wiValue.e) :
       LET inner == wiValue.e[i].v
       IN /\ IsObject(inner) /\ ~IsEmpty(inner)
          /\ \A j \in 1..Len(inner.e) : inner.e[j].v = EmptyObj
          /\ ~HasKey(wiResult.e, OnceKey(wiValue.e[i].k))
  /\ Len(wiResult.e) >= 1

\* C6 (as claimed): no line of the output has an empty object as its value,
\* and writeItem writes nothing for a null value.
C6_NoEmptyLine ==
  /\ \A i \in 1..Len(out) : ~(IsObject(out[i].value) /\ IsEmpty(out[i].value))
  /\ rpc = "skipped" => out = <<>>

\* C7: rewriting the rewritten value once more in identity mode changes nothing.
C7_Idempotent == rpc = "twice" => reResult = wiResult

\* C7 witness: the first rewriting, under an explicit map, changed an object.
C7_Witness ==
  /\ rpc = "twice"
  /\ ~identityUserMap
  /\ IsObject(wiValue) /\ Len(wiResult.e) >= 2
  /\ wiResult # wiValue

\* the user keys of a string in order, mapped
MappedKeys(s) ==
  LET ids == SelectSeq(s, LAMBDA tok : tok \in UserKeys)
  IN [i \in 1..Len(ids) |-> Eff(ids[i])]
FirstAt(seq, x) == CHOOSE i \in 1..Len(seq) : seq[i] = x /\ \A j \in 1..(i - 1) : seq[j] # x

\* C8: a comma-joined list of user keys becomes the mapped keys in the order of
\* their first occurrence, without duplicates, joined with "," and nothing else.
C8_ListRewritten ==
  (Rewrote /\ IsString(wiValue) /\ MatchUserKeyList(wiValue.s)) =>
    LET m == MappedKeys(wiValue.s)
        r == wiResult.s
        n == (Len(r) + 1) \div 2
    IN /\ IsString(wiResult)
       /\ Len(r) = 2 * n - 1
       /\ \A i \in 1..Len(r) : IF i % 2 = 1 THEN r[i] \in UserKeys ELSE r[i] = ","
       /\ {r[2 * i - 1] : i \in 1..n} = {m[i] : i \in 1..Len(m)}
       /\ \A i, j \in 1..n : i < j =>
            /\ r[2 * i - 1] # r[2 * j - 1]
            /\ FirstAt(m, r[2 * i - 1]) < FirstAt(m, r[2 * j - 1])

\* C8 witness: a list with blanks around a comma whose mapped keys repeat, and
\* whose result still holds two keys.
C8_Witness ==
  /\ rpc = "written"
  /\ IsString(wiValue) /\ MatchUserKeyList(wiValue.s)
  /\ \E i \in 1..Len(wiValue.s) : wiValue.s[i] = " "
  /\ LET m == MappedKeys(wiValue.s)
     IN \E i, j \in 1..Len(m) : i # j /\ m[i] = m[j]
  /\ Len(wiResult.s) = 3
  /\ ~identityUserMap

\* C9: of a string that ends in |<user key> only that user key is replaced by
\* its mapping; everything before it stays as it is.
C9_SuffixRewritten ==
  (Rewrote /\ IsString(wiValue) /\ MatchSuffix(wiValue.s)) =>
    /\ IsString(wiResult)
    /\ Len(wiResult.s) = Len(wiValue.s)
    /\ \A i \in 1..(Len(wiValue.s) - 1) : wiResult.s[i] = wiValue.s[i]
    /\ wiResult.s[Len(wiValue.s)] = Eff(wiValue.s[Len(wiValue.s)])

\* C9 witness: the prefix holds a user key that the map would change, and the
\* trailing user key was changed.
C9_Witness ==
  /\ rpc = "written"
  /\ IsString(wiValue) /\ MatchSuffix(wiValue.s)
  /\ \E i \in 1..(Len(wiValue.s) - 2) :
       wiValue.s[i] \in UserKeys /\ Eff(wiValue.s[i]) # wiValue.s[i]
  /\ wiResult.s[Len(wiResult.s)] # wiValue.s[Len(wiValue.s)]

\* C10: in identity mode every mapUserKey call returns the key it was given,
\* the key is registered in userMap as its own image, and nothing ever enters
\* the ghost log.
C10_IdentityMode ==
  identityUserMap =>
    /\ ghostedUsers = <<>>
    /\ \A i \in 1..Len(calls) :
         /\ calls[i].result = calls[i].key
         /\ calls[i].key \in DOMAIN userMap
         /\ userMap[calls[i].key] = calls[i].key

\* C10 witness: an identifier was mapped, then another, then the first again.
C10_Witness ==
  /\ identityUserMap
  /\ Len(calls) = 3
  /\ calls[1].key = calls[3].key /\ calls[1].key # calls[2].key
  /\ calls[1].key # GhostKey

-----------------------------------------------------------------------------
(* Properties of the ghost log *)

\* ctx is a slash-delimited path of the record written under wiKey
PathUnder(ctx) ==
  /\ Len(ctx) >= Len(wiKey)
  /\ SubSeq(ctx, 1, Len(wiKey)) = wiKey
  /\ \A i \in (Len(wiKey) + 1)..Len(ctx) :
       IF (i - Len(wiKey)) % 2 = 1 THEN ctx[i] = "/" ELSE ctx[i] # "/"

\* C11 (as claimed): with an explicit map, an identifier without a mapping is
\* replaced by github:1 and every entry of the ghost log names such an
\* identifier together with the path of the place where it occurred, whether
\* it occurred as a scalar, in a comma-joined list, as a suffix or as a key.
C11_GhostLogged ==
  (~identityUserMap /\ Rewrote) =>
    /\ \A i \in 1..Len(ghostedUsers) :
         /\ ghostedUsers[i].userKey \notin DOMAIN wiMap
         /\ PathUnder(ghostedUsers[i].context)
    /\ (IsString(wiValue) /\ MatchUserKey(wiValue.s) /\ wiValue.s[1] \notin DOMAIN wiMap) =>
         /\ wiResult = Str(<<GhostKey>>)
         /\ wiValue.s[1] # GhostKey =>
              ghostedUsers = <<[userKey |-> wiValue.s[1], context |-> wiKey]>>

-----------------------------------------------------------------------------
(* The mapper of the single-JSON-document extractor (lines 1-207), which    *)
(* takes the ghost from the command line and has no context argument        *)

\* the rewriter and mapper variables of the ndJSON extractor, out of use
RewriterIdle ==
  /\ identityUserMap = FALSE
  /\ userMap = EmptyMap
  /\ ghostedUsers = <<>>
  /\ paceTotal = 0
  /\ out = <<>>
  /\ rpc = "none"
  /\ wiKey = <<>>
  /\ wiValue = Null
  /\ wiResult = Null
  /\ wiMap = EmptyMap
  /\ reResult = Null
  /\ calls = <<>>

\* args.ghost: not given, or a user key
NoGhost == "none"
GhostOptions == {NoGhost, "github:1"}

\* line 204: the text of the error
NotMappedMessage(userKey) == <<"User not mapped and no ghost specified: ", userKey>>

\* lines 202-207: function mapUserKey(userKey)
GenMapUserKey(map, ghost, userKey) ==
  LET newUserKey == IF userKey \in DOMAIN map THEN map[userKey] ELSE ghost
  IN IF newUserKey = NoGhost
       THEN [thrown |-> NotMappedMessage(userKey), val |-> NoGhost, ghosted |-> <<>>]
       ELSE [thrown |-> <<>>, val |-> newUserKey,
             ghosted |-> IF newUserKey = ghost THEN <<userKey>> ELSE <<>>]

GenMapperInit ==
  /\ RewriterIdle
  /\ PipelineIdle
  /\ input \in [userMap : ExplicitMaps, ghost : GhostOptions]
  /\ output = [calls |-> <<>>, thrown |-> <<>>, ghostedUserKeys |-> <<>>, file |-> "none"]
  /\ hpc = "mapping"
  /\ dest = <<>>

\* a user key found at the place context is mapped; an error thrown ends the
\* run (lines 80-84) before line 66 writes the file
GenMapUserKeyCall(userKey, context) ==
  /\ hpc = "mapping"
  /\ Len(output.calls) < MaxCalls
  /\ LET r == GenMapUserKey(input.userMap, input.ghost, userKey)
     IN /\ output' = [output EXCEPT
                        !.calls = Append(@, [key |-> userKey, context |-> context,
                                             result |-> r.val]),
                        !.thrown = r.thrown,
                        !.ghostedUserKeys = @ \o r.ghosted]
        /\ hpc' = IF r.thrown # <<>> THEN "aborted" ELSE "mapping"
  /\ UNCHANGED <<input, dest, rewriteVars, pipelineVars>>

\* line 66: fs.writeFileSync(args.output, JSON.stringify(data))
GenWriteOutput ==
  /\ hpc = "mapping"
  /\ hpc' = "written"
  /\ output' = [output EXCEPT !.file = [i \in 1..Len(output.calls) |-> output.calls[i].result]]
  /\ UNCHANGED <<input, dest, rewriteVars, pipelineVars>>

GenMapperNext ==
  \/ \E userKey \in UserKeys, context \in WriteKeys : GenMapUserKeyCall(userKey, context)
  \/ GenWriteOutput

SpecGenMapper == GenMapperInit /\ [][GenMapperNext]_vars

\* the token sequence toks occurs in msg
Names(msg, toks) ==
  \E i \in 1..(Len(msg) - Len(toks) + 1) : SubSeq(msg, i, i + Len(toks) - 1) = toks

\* C12 (as claimed): with an explicit map and no ghost, mapping an identifier
\* that has no mapping ends the run with an error that names the identifier
\* and the context path, and nothing is written.
C12_FatalNamesContext ==
  \A i \in 1..Len(output.calls) :
    (input.ghost = NoGhost /\ output.calls[i].key \notin DOMAIN input.userMap) =>
      /\ hpc = "aborted"
      /\ output.file = "none"
      /\ Names(output.thrown, <<output.calls[i].key>>)
      /\ Names(output.thrown, output.calls[i].context)

-----------------------------------------------------------------------------
(* Properties of a failing run *)

InFlight == {"get", "get2", "write", "write2", "returned"}
\* the phase, scheduled or not, that rejected
Rejected(p) == status[p] = "rejected"
\* a store request of some worker of phase p failed
FetchFailed(p) == \E i \in 1..Len(wk[p]) : wk[p][i] = "failed"
\* a request of logUnmappedUsers failed
LogFailed == \E i \in DOMAIN unmapped.wk : unmapped.wk[i] = "failed"

\* C13 (as claimed): after a worker of a scheduled phase failed, no item that
\* was not yet dispatched gets a worker, the phase has rejected, and the
\* workers that were in flight are left to run to their end: the run does not
\* end while one of them is still in flight.
C13_InFlightSettle ==
  \A p \in ScheduledPhases :
    FetchFailed(p) =>
      /\ Rejected(p)
      /\ sched[p].done
      /\ exit # "running" => \A i \in 1..Len(wk[p]) : wk[p][i] \notin InFlight


\* no phase after p was entered and the summary was not printed
NothingAfter(p) ==
  /\ \A j \in (Idx(p) + 1)..Len(PhaseOrder) : status[PhaseOrder[j]] = "notStarted"
  /\ status["end"] # "resolved"

\* C14 (as claimed): a failed store request ends the run with a non-zero
\* status, no later phase being entered and no summary printed; and no run
\* ends like that because a record was absent from the store.
C14_OnlyFailuresAbort ==
  /\ \A p \in Phases : FetchFailed(p) => (exit = "1" /\ NothingAfter(p))
  /\ exit = "1" =>
       \/ \E p \in Phases : FetchFailed(p)
       \/ LogFailed
       \/ store.rest.system \in {"bad", "badBang"}

\* C14 (amended): a failed store request ends the run with a non-zero status,
\* no later phase being entered and no summary printed; an absent
\* organization, repository, rule, review, archive, linemap, filemap, basemap
\* or user record never ends the run: a run ends with a non-zero status only
\* after a failed store request (of a phase, or of the report of the unmapped
\* users) or in extractSystem, on a System record that is absent or fails the
\* encryption check.
C14_AbortsAmended ==
  /\ \A p \in Phases : FetchFailed(p) => (exit = "1" /\ NothingAfter(p))
  /\ exit = "1" =>
       \/ \E p \in Phases : FetchFailed(p)
       \/ LogFailed
       \/ /\ wk["system"] = <<"threw">>
          /\ store.rest.system \in {"bad", "badBang", "absent"}
  /\ exit = "0" => \A p \in Phases : status[p] = "resolved"

\* C14 witness: the run went past absent records (a missing review, a user
\* without a record would come later) and ended on a failed request of the
\* linemaps phase while another linemap request was pending.
C14_Witness ==
  /\ exit = "1"
  /\ FetchFailed("linemaps")
  /\ missingReviewKeys # <<>>
  /\ \E i \in 1..Len(wk["linemaps"]) : wk["linemaps"][i] = "get"
  /\ status["filemaps"] = "notStarted"

-----------------------------------------------------------------------------
(* Properties of the review and rule phases *)

\* how often x occurs in the sequence seq
Occurrences(seq, x) == Cardinality({i \in 1..Len(seq) : seq[i] = x})
\* how many lines with key k were written
Lines(k) == CopiesIn(k, written)
\* the requests and writes a review worker issues, by what the store holds
ReviewRequests(kind) ==
  CASE kind = "live" -> 2
    [] kind = "archived" -> 3
    [] OTHER -> 2

RECURSIVE SumRequests(_)
SumRequests(keys) ==
  IF keys = <<>> THEN 0
  ELSE ReviewRequests(store.rest.reviews[Head(keys)]) + SumRequests(Tail(keys))

\* C15: a review worker asks for the archive only when the live review is
\* absent; once the review phase has resolved, each review key has exactly one
\* outcome, the one the store calls for: a reviews/<key> line, an
\* archivedReviews/<key> line, or one entry in the missing list; the phase
\* issued no request beyond those; and a missing review does not end the run.
C15_ReviewOutcome ==
  /\ \A i \in 1..Len(wk["reviews"]) :
       wk["reviews"][i] = "get2" => store.rest.reviews[coll["reviews"][i]] # "live"
  /\ status["reviews"] = "resolved" =>
       /\ issued["reviews"] = SumRequests(coll["reviews"])
       /\ \A i \in 1..Len(coll["reviews"]) :
            LET k == coll["reviews"][i]
                kind == store.rest.reviews[k]
            IN /\ Lines(<<"reviews", k>>) = (IF kind = "live" THEN 1 ELSE 0)
               /\ Lines(<<"archivedReviews", k>>) = (IF kind = "archived" THEN 1 ELSE 0)
               /\ Occurrences(missingReviewKeys, k) = (IF kind = "missing" THEN 1 ELSE 0)
  /\ (exit = "1" /\ missingReviewKeys # <<>>) => (LogFailed \/ \E p \in Phases : FetchFailed(p))

\* C15 witness: a run over a live, an archived and a missing review reached
\* its end.
C15_Witness ==
  /\ exit = "0"
  /\ Len(coll["reviews"]) = 3
  /\ Lines(<<"reviews", "r1">>) = 1
  /\ Lines(<<"archivedReviews", "r2">>) = 1
  /\ missingReviewKeys = <<"r3">>

\* C16 (as claimed): once the rule phase has resolved, a rules/<owner>/<repo>
\* line was written for every seed repository, whether the store holds a rule
\* for it or not.
C16_RulesAlwaysWritten ==
  status["rules"] = "resolved" =>
    \A i \in 1..Len(repoNames) :
      Lines(<<"rules", repoNames[i].owner, repoNames[i].repo>>) = 1

-----------------------------------------------------------------------------
(* stripReview (lines 491-546) as a function of the review, without an     *)
(* uploaded-files URL and without an organization map.  An object is a     *)
(* function from its keys; a key that is absent is not in its domain.      *)

Without(obj, keys) == [k \in (DOMAIN obj) \ keys |-> obj[k]]
\* lodash reads an absent object as the empty one
Field(obj, k) == IF k \in DOMAIN obj THEN obj[k] ELSE EmptyMap
NoKeys(obj) == DOMAIN obj = {}
PickBy(obj, Keep(_, _)) == [k \in {x \in DOMAIN obj : Keep(obj[x], x)} |-> obj[k]]
OmitBy(obj, Drop(_, _)) == [k \in {x \in DOMAIN obj : ~Drop(obj[x], x)} |-> obj[k]]

\* the unanchored expression /gh-/
IsGitHubCommentAnywhere(commentKey) ==
  \E i \in 1..Len(commentKey) : i + 2 <= Len(commentKey) /\ SubSeq(commentKey, i, i + 2) = <<"g", "h", "-">>
\* /^gh-/.test(commentKey), a key being its sequence of characters
IsGitHubComment(commentKey) ==
  Len(commentKey) >= 3 /\ SubSeq(commentKey, 1, 3) = <<"g", "h", "-">>

\* lines 506-507, 538-539: the discussion with its comments filtered
StripComments(discussion) ==
  Put(discussion, "comments",
      PickBy(Field(discussion, "comments"), LAMBDA comment, commentKey : ~IsGitHubComment(commentKey)))

\* lines 505-528, 537-541: the discussions (sentiments) that keep a comment
StripThreads(threads) ==
  LET stripped == [d \in DOMAIN threads |-> StripComments(threads[d])]
  IN [d \in {x \in DOMAIN threads : ~NoKeys(stripped[x]["comments"])} |-> stripped[d]]

\* lines 529, 542: the field is assigned, then deleted when it is empty
Assign(review, field, value) ==
  IF NoKeys(value) THEN Without(review, {field}) ELSE Put(review, field, value)

\* a filter that drops every participant that was only mentioned
StripTrackerMentioned(tracker, isIdentity, map) ==
  Put(tracker, "participants",
      OmitBy(Field(tracker, "participants"),
             LAMBDA participant, userKey : participant.role = "mentioned"))

\* lines 531-535
StripTracker(tracker, isIdentity, map) ==
  Put(tracker, "participants",
      OmitBy(Field(tracker, "participants"),
             LAMBDA participant, userKey :
               ~isIdentity /\ userKey \notin DOMAIN map /\ participant.role = "mentioned"))

StripReview(review, isIdentity, map) ==
  LET r1 == Without(review, {"lastWebhook", "requestedTeams", "gitHubComments"})
      r2 == Put(r1, "core", Without(Field(r1, "core"),
                                    {"lastSweepTimestamp", "lastReconciliationTimestamp"}))
      r3 == Assign(r2, "discussions", StripThreads(Field(r2, "discussions")))
      r4 == IF "tracker" \in DOMAIN r3
              THEN Put(r3, "tracker", [t \in DOMAIN r3["tracker"] |->
                                         StripTracker(r3["tracker"][t], isIdentity, map)])
              ELSE r3
  IN Assign(r4, "sentiments", StripThreads(Field(r4, "sentiments")))

\* the reviews stripReview is applied to
CommentKeys == { <<"g", "h", "-", "1">>, <<"c", "1">>, <<"g", "h", "1">>, <<"x", "g", "h", "-">> }
CommentMaps(keys) == UNION { [K -> {"text"}] : K \in SUBSET keys }
Threads(keys) == {EmptyMap} \cup { [f \in {"comments"} |-> c] : c \in CommentMaps(keys) }
ThreadMaps(ids, keys) == UNION { [D -> Threads(keys)] : D \in SUBSET ids }
Participants ==
  [p \in {"github:2", "github:3", "github:4"} |->
     [role |-> IF p = "github:4" THEN "reviewer" ELSE "mentioned"]]
OtherFields ==
  { EmptyMap,
    [f \in {"lastWebhook", "requestedTeams", "gitHubComments", "core"} |->
       IF f = "core"
         THEN [lastSweepTimestamp |-> "1", lastReconciliationTimestamp |-> "2", ownerName |-> "acme"]
         ELSE [x \in {"id"} |-> "1"]],
    [f \in {"tracker"} |-> [t \in {"t1"} |-> [x \in {"participants"} |-> Participants]]],
    [f \in {"tracker", "core"} |->
       IF f = "core" THEN EmptyMap ELSE [t \in {"t1"} |-> EmptyMap]] }
WithField(review, field, options) ==
  { review } \cup { Put(review, field, v) : v \in options }
Reviews ==
  UNION { UNION { WithField(r, "sentiments", ThreadMaps({"s1"}, {<<"g", "h", "-", "1">>, <<"c", "1">>}))
                  : r \in WithField(o, "discussions", ThreadMaps({"d1", "d2"}, CommentKeys)) }
          : o \in OtherFields }

StripInit ==
  /\ RewriterIdle
  /\ PipelineIdle
  /\ \/ input \in [review : Reviews, identityUserMap : {FALSE},
                     userMap : {[k \in {"github:2"} |-> "github:3"]}]
     \/ input \in [review : {r \in Reviews : "tracker" \in DOMAIN r}, identityUserMap : {TRUE},
                     userMap : {EmptyMap}]
  /\ output = EmptyMap
  /\ hpc = "review"
  /\ dest = <<>>

\* lines 471, 477: await stripReview(review, reviewKey)
StripReviewCall ==
  /\ hpc = "review"
  /\ output' = StripReview(input.review, input.identityUserMap, input.userMap)
  /\ hpc' = "stripped"
  /\ UNCHANGED <<input, dest, rewriteVars, pipelineVars>>

StripNext == StripReviewCall

SpecStrip == StripInit /\ [][StripNext]_vars

\* the sequence s begins with prefix
StartsWith(s, prefix) == Len(s) >= Len(prefix) /\ SubSeq(s, 1, Len(prefix)) = prefix
\* the comment keys of thread d of the object threads that do not start with gh-
OwnComments(threads, d) ==
  {k \in DOMAIN Field(threads[d], "comments") : ~StartsWith(k, <<"g", "h", "-">>)}
\* the stripped field holds exactly the threads of the source field that have a
\* comment of their own, each with exactly those comments, and is absent when
\* there is none
StrippedOf(field) ==
  LET source == Field(input.review, field)
      kept == {d \in DOMAIN source : OwnComments(source, d) # {}}
  IN IF kept = {}
       THEN field \notin DOMAIN output
       ELSE /\ field \in DOMAIN output
            /\ DOMAIN output[field] = kept
            /\ \A d \in kept :
                 /\ DOMAIN output[field][d]["comments"] = OwnComments(source, d)
                 /\ \A k \in OwnComments(source, d) :
                      output[field][d]["comments"][k] = source[d]["comments"][k]

\* C17: after stripReview, discussions and sentiments hold no comment whose
\* key starts with gh-; every discussion or sentiment that still has a comment
\* is kept with exactly its other comments, every one left without comments is
\* removed, and the field is absent when none is left.
C17_ThreadsStripped ==
  hpc = "stripped" => StrippedOf("discussions") /\ StrippedOf("sentiments")

\* C17 witness: discussion d1 had a gh- comment and one of its own, d2 and
\* sentiment s1 only gh- comments; d1 survives with its own comment and the
\* sentiments are gone.
C17_Witness ==
  /\ hpc = "stripped"
  /\ "discussions" \in DOMAIN input.review
  /\ DOMAIN input.review["discussions"] = {"d1", "d2"}
  /\ DOMAIN Field(input.review["discussions"]["d1"], "comments") = {<<"g", "h", "-", "1">>, <<"c", "1">>}
  /\ DOMAIN Field(input.review["discussions"]["d2"], "comments") = {<<"g", "h", "-", "1">>}
  /\ "sentiments" \in DOMAIN input.review
  /\ DOMAIN input.review["sentiments"] = {"s1"}
  /\ DOMAIN Field(input.review["sentiments"]["s1"], "comments") = {<<"g", "h", "-", "1">>}
  /\ DOMAIN output["discussions"] = {"d1"}
  /\ DOMAIN output["discussions"]["d1"]["comments"] = {<<"c", "1">>}
  /\ "sentiments" \notin DOMAIN output

-----------------------------------------------------------------------------
(* The worker of extractUsers (lines 581-627) for a user the store holds,  *)
(* as a function of the user, without an organization map                  *)

\* pick that keeps every property
PickEverything(obj, paths) == obj
\* lodash 4 pick(object, paths): the properties of object named by paths
Pick(obj, paths) == [k \in (DOMAIN obj) \cap paths |-> obj[k]]
\* line 595 hands pick a function: lodash 4 reads it as one property path, the
\* source text of the function
MentionPredicate == "mention => repoNamesSet.has(mention.owner/mention.repo)"
\* the elements of a list
Elements(list) == {list[i] : i \in 1..Len(list)}
\* obj with the property at field.key removed, when field is there
OmitIn(obj, field, keys) ==
  IF field \in DOMAIN obj THEN Put(obj, field, Without(obj[field], keys)) ELSE obj

\* lines 588-613
SanitizeUser(user, keys) ==
  LET u1 == OmitIn(OmitIn(Without(user,
                {"lastUpdateTimestamp", "lastSeatAllocationTimestamp",
                 "lastOwnershipsSyncTimestamp", "enterpriseLicenseAdmin", "core",
                 "dashboardCache", "stripe", "enrollments", "notifications"}),
              "settings", {"dismissals"}), "index", {"subscriptions", "memberships"})
      u2 == IF "extraMentions" \in DOMAIN Field(u1, "index")
              THEN Assign(u1, "index",
                          Assign(u1["index"], "extraMentions",
                                 Pick(u1["index"]["extraMentions"], {MentionPredicate})))
              ELSE u1
  IN IF "state" \in DOMAIN u2 THEN Assign(u2, "state", Pick(u2["state"], Elements(keys))) ELSE u2

\* lines 614-625: the calls of writeItem, in order
UserWrites(user, merge, newUserKey) ==
  LET Item(path, value) == <<[key |-> <<"users", newUserKey>> \o path, value |-> value]>>
      Part(key) == IF NoKeys(Field(user, key)) THEN <<>> ELSE Item(<<key>>, user[key])
      bareUser == Without(user, {"onboarding", "settings", "state", "index"})
  IN IF merge
       THEN (IF NoKeys(bareUser) THEN <<>> ELSE Item(<<>>, bareUser))
            \o Part("onboarding") \o Part("settings") \o Part("state")
            \o (IF "extraMentions" \in DOMAIN Field(user, "index")
                  THEN Item(<<"index", "extraMentions">>, user["index"]["extraMentions"])
                  ELSE <<>>)
       ELSE Item(<<>>, user)

\* the users of the source store: no object of the store is empty
Only(obj, keys) == [k \in keys |-> obj[k]]
Marked(keys) == [k \in keys |-> [x \in {"seen"} |-> "1"]]
StateOptions == { Marked(K) : K \in (SUBSET {"r1", "r2", "r3"}) \ {{}} }
Mention(owner, repo) == [f \in {"owner", "repo"} |-> IF f = "owner" THEN owner ELSE repo]
Mentions ==
  [k \in {"acme|widgets|1", "other|lib|2"} |->
     IF k = "acme|widgets|1" THEN Mention("acme", "widgets") ELSE Mention("other", "lib")]
IndexOptions ==
  { [f \in {"subscriptions"} |-> Marked({"s1"})] }
  \cup UNION { { [f \in {"extraMentions"} |-> Only(Mentions, K)],
                 [f \in {"extraMentions", "memberships"} |->
                    IF f = "extraMentions" THEN Only(Mentions, K) ELSE Marked({"m1"})] }
               : K \in (SUBSET DOMAIN Mentions) \ {{}} }
OtherUserFields ==
  { EmptyMap,
    [f \in {"core", "stripe", "onboarding"} |-> Marked({"a"})],
    [f \in {"settings"} |-> Marked({"dismissals"})],
    [f \in {"settings", "lastUpdateTimestamp"} |-> Marked({"dismissals", "lastDashboardOrganization"})] }
Users ==
  UNION { UNION { WithField(u, "index", IndexOptions) : u \in WithField(o, "state", StateOptions) }
          : o \in OtherUserFields }

UserInit ==
  /\ RewriterIdle
  /\ PipelineIdle
  /\ input \in [user : Users, reviewKeys : {<<>>, <<"r1">>, <<"r1", "r2">>},
                repoNames : {<<>>, <<[owner |-> "acme", repo |-> "widgets"]>>},
                merge : BOOLEAN]
  /\ output = <<>>
  /\ hpc = "user"
  /\ dest = <<>>

\* lines 581-627 for the user mapped to github:3
UserWorker ==
  /\ hpc = "user"
  /\ output' = UserWrites(SanitizeUser(input.user, input.reviewKeys), input.merge, "github:3")
  /\ hpc' = "written"
  /\ UNCHANGED <<input, dest, rewriteVars, pipelineVars>>

UserNext == UserWorker

SpecUser == UserInit /\ [][UserNext]_vars

\* the values written under the path below users/<key>
WrittenAt(path) ==
  {output[i].value : i \in {j \in 1..Len(output) : output[j].key = <<"users", "github:3">> \o path}}
\* the written user record has at field, or in merge mode in the record
\* written for that field, exactly the properties kept of source, and has no
\* such field or record when kept is empty
WrittenExactly(path, source, kept) ==
  LET holders == IF input.merge THEN WrittenAt(path) ELSE WrittenAt(<<>>)
      Part(v) == IF input.merge THEN v
               ELSE IF Len(path) = 1 THEN Field(v, path[1])
               ELSE Field(Field(v, path[1]), path[2])
      Holds(v) == IF input.merge THEN TRUE
                ELSE IF Len(path) = 1 THEN path[1] \in DOMAIN v
                ELSE path[2] \in DOMAIN Field(v, path[1])
  IN /\ input.merge => \A v \in WrittenAt(<<>>) : path[1] \notin DOMAIN v
     /\ IF kept = {}
          THEN \A v \in holders : ~Holds(v)
          ELSE /\ holders # {}
               /\ \A v \in holders : Holds(v) /\ Part(v) = Only(source, kept)

\* C18: the state of a written user record has exactly the entries of the
\* source user's state whose key is one of the review keys, and the record
\* has no state when there is no such entry.
C18_StateRestricted ==
  hpc = "written" =>
    LET source == Field(input.user, "state")
    IN WrittenExactly(<<"state">>, source, (DOMAIN source) \cap Elements(input.reviewKeys))

\* C18 witness: a user with state for r1, r2 and r3 was written with the
\* review keys r1 and r2.
C18_Witness ==
  /\ hpc = "written"
  /\ DOMAIN Field(input.user, "state") = {"r1", "r2", "r3"}
  /\ input.reviewKeys = <<"r1", "r2">>
  /\ ~input.merge
  /\ DOMAIN output[1].value["state"] = {"r1", "r2"}

\* C19 (as claimed): index.extraMentions of a written user record has exactly
\* the source user's mentions whose owner and repository name a seed
\* repository, and is absent when there is no such mention.
C19_MentionsOfSeeds ==
  hpc = "written" =>
    LET source == Field(Field(input.user, "index"), "extraMentions")
        seeds == Elements(input.repoNames)
    IN WrittenExactly(<<"index", "extraMentions">>, source,
                      {k \in DOMAIN source : [owner |-> source[k]["owner"], repo |-> source[k]["repo"]] \in seeds})

-----------------------------------------------------------------------------
(* The loader (load_data.js), without an uploaded-files URL.  input is the  *)
(* list of parsed lines, output the position of processLine for each line,  *)
(* dest the destination store by path.                                      *)

\* most lines of an input file
MaxLines == 2

\* JSON values of the loader: a number, the decimal text of a number, an
\* object by its properties, null
LNum(n) == [t |-> "num", n |-> n, o |-> EmptyMap]
LStr(n) == [t |-> "str", n |-> n, o |-> EmptyMap]
LObj(o) == [t |-> "obj", n |-> 0, o |-> o]
LNull == [t |-> "null", n |-> 0, o |-> EmptyMap]

\* _.isEmpty: true of null, of every number, of an object without properties
LodashIsEmpty(v) ==
  CASE v.t = "obj" -> DOMAIN v.o = {}
    [] v.t = "str" -> FALSE
    [] OTHER -> TRUE
\* the truth value of oldValue in line 125
Truthy(v) ==
  CASE v.t = "null" -> FALSE
    [] v.t = "num" -> v.n # 0
    [] OTHER -> TRUE
\* Math.min converts both arguments to numbers
MathMin(a, b) == LNum(IF a.n < b.n THEN a.n ELSE b.n)
ToLower(s) == IF s = "Acme" THEN "acme" ELSE s

\* what the store holds at key
Child(store_, key) == IF key \in DOMAIN store_ THEN store_[key] ELSE LNull

\* _.startsWith(key, 'system/oldestUsed')
IsOldestUsed(key) ==
  key[1] = "system" /\ key[2] \in {"oldestUsedClientBuild", "oldestUsedServerBuild"}

\* lines 124-126: transaction(oldValue => oldValue ? Math.min(oldValue, value) : value)
Transaction(store_, key, value) ==
  LET oldValue == Child(store_, key)
  IN Put(store_, key, IF Truthy(oldValue) THEN MathMin(oldValue, value) ELSE value)

\* set(value): the value replaces what the store holds at key
UpdateSets(store_, key, value) == Put(store_, key, value)
\* line 128: update(value) sets the children named in value and no other
Update(store_, key, value) ==
  LET old == Child(store_, key).o
  IN Put(store_, key,
         LObj([c \in (DOMAIN old) \cup (DOMAIN value.o) |->
                 IF c \in DOMAIN value.o THEN value.o[c] ELSE old[c]]))

\* lines 122-130
WriteValue(store_, key, value) ==
  IF IsOldestUsed(key) THEN Transaction(store_, key, value) ELSE Update(store_, key, value)

\* args.admin
Admin == "github:9"
\* lines 133-141
SyncKey(value) ==
  <<"queues", "githubPullRequestSync", ToLower(value.o["core"]["ownerName"]),
    ToLower(value.o["core"]["repoName"]), value.o["core"]["pullRequestId"], Admin>>
SyncOptions(value) ==
  [f \in {"userKey", "prNumber", "owner", "repo", "updateReview", "syncComments",
          "syncStatus", "mustSucceed", "overrideBadge", "timestamp"} |->
     CASE f = "userKey" -> Admin
       [] f = "prNumber" -> value.o["core"]["pullRequestId"]
       [] f = "owner" -> ToLower(value.o["core"]["ownerName"])
       [] f = "repo" -> ToLower(value.o["core"]["repoName"])
       [] f = "timestamp" -> "SERVER_TIMESTAMP"
       [] OTHER -> "true"]
\* lines 143-145: push adds a child under a new key
Push(store_, key, item) ==
  LET old == Child(store_, key).o
  IN Put(store_, key, LObj(Put(old, Cardinality(DOMAIN old) + 1, item)))
FillUserProfile(key) ==
  [f \in {"action", "userKey", "userId"} |->
     CASE f = "action" -> "fillUserProfile" [] f = "userKey" -> Admin [] OTHER -> key[2]]

\* lines 132-146: what processLine does after the value: "throws" when a
\* property of the absent value.core is read (line 134)
QueueStep(line) ==
  CASE line.key[1] = "reviews" ->
         IF "core" \in DOMAIN line.value.o THEN "sync" ELSE "throws"
    [] line.key[1] = "users" -> "push"
    [] OTHER -> "none"
Queue(store_, line) ==
  CASE QueueStep(line) = "sync" -> Update(store_, SyncKey(line.value), LObj(SyncOptions(line.value)))
    [] QueueStep(line) = "push" -> Push(store_, <<"queues", "requests">>, FillUserProfile(line.key))
    [] OTHER -> store_

\* the lines of an input file and the destination stores
Line(key, value) == [key |-> key, value |-> value]
\* a line of text that JSON.parse rejects
Malformed == Line(<<"malformed">>, LNull)
ReviewCore == [f \in {"ownerName", "repoName", "pullRequestId"} |->
                 CASE f = "ownerName" -> "Acme" [] f = "repoName" -> "widgets" [] OTHER -> "1"]
LoadLines ==
  { Line(<<"system", "oldestUsedClientBuild">>, v) : v \in {LNum(1), LNum(3), LStr(1), LStr(3)} }
  \cup { Line(<<"reviews", "r1">>, LObj([f \in {"core"} |-> ReviewCore])),
         Line(<<"reviews", "r1">>, LObj(EmptyMap)),
         Line(<<"archivedReviews", "r2">>, LObj([f \in {"payload"} |-> "gz"])),
         Line(<<"users", "github:3">>, LObj([f \in {"state"} |-> "s"])),
         Line(<<"users", "github:4">>, LObj([f \in {"requester"} |-> "github:2"])),
         Line(<<"repositories", "acme", "widgets">>, LObj([f \in {"core"} |-> "c"])),
         Malformed }
Files == UNION { [1..n -> LoadLines] : n \in 0..MaxLines }
Stores ==
  { EmptyMap,
    [k \in {<<"system", "oldestUsedClientBuild">>} |-> LNum(2)],
    [k \in {<<"system", "oldestUsedClientBuild">>, <<"reviews", "r1">>} |->
       IF k[1] = "system" THEN LStr(2) ELSE LObj([f \in {"sentiments"} |-> "old"])] }

LoadInit ==
  /\ RewriterIdle
  /\ PipelineIdle
  /\ input \in Files
  /\ output = [i \in 1..Len(input) |-> "new"]
  /\ hpc = "loading"
  /\ dest \in Stores

LoadFrame == UNCHANGED <<input, rewriteVars, pipelineVars>>

\* lines 132-146 issued for line i against the store d
QueuePart(i, d) ==
  /\ dest' = Queue(d, input[i])
  /\ output' = [output EXCEPT ![i] = CASE QueueStep(input[i]) = "none" -> "done"
                                       [] QueueStep(input[i]) = "throws" -> "threw"
                                       [] OTHER -> "queue"]
  \* the rejection of the mapper of line 87 is handled nowhere: the process
  \* ends with a failure, or the stream never ends
  /\ hpc' = IF QueueStep(input[i]) = "throws" THEN "exit1" ELSE hpc

\* line 87: the mapper is called for each line as it arrives; processLine
\* runs to its first request
ProcessLine(i) ==
  /\ hpc = "loading"
  /\ output[i] = "new"
  /\ input[i] # Malformed
  /\ \A j \in 1..(i - 1) : output[j] # "new"
  /\ IF LodashIsEmpty(input[i].value)
       THEN QueuePart(i, dest)
       ELSE /\ dest' = WriteValue(dest, input[i].key, input[i].value)
            /\ output' = [output EXCEPT ![i] = "value"]
            /\ hpc' = hpc
  /\ LoadFrame

\* es.parse without the error option: the line is reported and skipped
ParseSkips(i) ==
  /\ hpc = "loading"
  /\ output[i] = "new"
  /\ input[i] = Malformed
  /\ \A j \in 1..(i - 1) : output[j] # "new"
  /\ output' = [output EXCEPT ![i] = "done"]
  /\ UNCHANGED <<dest, hpc>>
  /\ LoadFrame

\* line 86: es.parse({error: true}) emits an error for a line it cannot
\* parse; the stream it is emitted on has no listener (the one of line 91 is on
\* the last stream of the pipe), and the process ends with a failure
ParseFails(i) ==
  /\ hpc = "loading"
  /\ output[i] = "new"
  /\ input[i] = Malformed
  /\ \A j \in 1..(i - 1) : output[j] # "new"
  /\ output' = [output EXCEPT ![i] = "unparsed"]
  /\ hpc' = "exit1"
  /\ UNCHANGED dest
  /\ LoadFrame

\* lines 124-130: the transaction or update of line i returned
ValueWritten(i) ==
  /\ hpc = "loading"
  /\ output[i] = "value"
  /\ QueuePart(i, dest)
  /\ LoadFrame

\* lines 139-146, 89: the queue request of line i returned
Queued(i) ==
  /\ hpc = "loading"
  /\ output[i] = "queue"
  /\ output' = [output EXCEPT ![i] = "done"]
  /\ UNCHANGED <<dest, hpc>>
  /\ LoadFrame

\* lines 94-99: the stream ended, load() resolves
LoadEnd ==
  /\ hpc = "loading"
  /\ \A i \in 1..Len(input) : output[i] = "done"
  /\ hpc' = "exit0"
  /\ UNCHANGED <<dest, output>>
  /\ LoadFrame

LoadNext ==
  \/ \E i \in 1..Len(input) : ProcessLine(i)
  \/ \E i \in 1..Len(input) : ParseFails(i)
  \/ \E i \in 1..Len(input) : ValueWritten(i)
  \/ \E i \in 1..Len(input) : Queued(i)
  \/ LoadEnd

SpecLoad == LoadInit /\ [][LoadNext]_vars

\* line i is taken up by processLine in this step
TakenUp(i) == output[i] = "new" /\ output'[i] # "new"
Smaller(a, b) == IF a < b THEN a ELSE b

\* C20 (as claimed): when processLine takes up a line whose key starts with
\* system/oldestUsed and whose value is v, the destination then holds at that
\* key the smaller of the old value and v, or v when there was none; and no
\* step makes the value the destination holds at such a key larger.
C20_WatermarkMin ==
  [][ /\ \A i \in 1..Len(input) :
           (TakenUp(i) /\ IsOldestUsed(input[i].key)) =>
             LET key == input[i].key
             IN /\ key \in DOMAIN dest'
                /\ dest'[key].n = IF key \in DOMAIN dest
                                    THEN Smaller(dest[key].n, input[i].value.n)
                                    ELSE input[i].value.n
      /\ \A key \in DOMAIN dest :
           (Len(key) >= 2 /\ IsOldestUsed(key)) => dest'[key].n <= dest[key].n
    ]_vars


-----------------------------------------------------------------------------
(* Properties of the loader *)

\* C21: when processLine takes up a line that is not a system/oldestUsed line
\* and has a non-empty value, the destination then holds at the line's key
\* every child named in the value with the value's content, and every child it
\* held before that the value does not name, unchanged.
C21_UpdateMerges ==
  [][ \A i \in 1..Len(input) :
        (TakenUp(i) /\ ~IsOldestUsed(input[i].key) /\ ~LodashIsEmpty(input[i].value)) =>
          LET key == input[i].key
              value == input[i].value.o
              old == Child(dest, key).o
          IN /\ key \in DOMAIN dest'
             /\ DOMAIN dest'[key].o = (DOMAIN old) \cup (DOMAIN value)
             /\ \A c \in DOMAIN value : dest'[key].o[c] = value[c]
             /\ \A c \in (DOMAIN old) \ (DOMAIN value) : dest'[key].o[c] = old[c]
    ]_vars

\* C21 witness: the review line was merged into a destination review that had
\* sentiments: both are there.
C21_Witness ==
  /\ \E i \in 1..Len(input) : input[i].key = <<"reviews", "r1">> /\ output[i] # "new"
  /\ <<"reviews", "r1">> \in DOMAIN dest
  /\ DOMAIN dest[<<"reviews", "r1">>].o = {"sentiments", "core"}
  /\ dest[<<"reviews", "r1">>].o["sentiments"] = "old"


\* the synchronization-queue entries of the destination
SyncEntries(store_) ==
  {k \in DOMAIN store_ : Len(k) = 6 /\ k[1] = "queues" /\ k[2] = "githubPullRequestSync"}
\* the entry at k is for the administrator and has the resync flags set
Resyncs(store_, k) ==
  /\ k[6] = Admin
  /\ \A f \in {"updateReview", "syncComments", "syncStatus", "mustSucceed", "overrideBadge"} :
       f \in DOMAIN store_[k].o /\ store_[k].o[f] = "true"
\* processLine is past its value for line i: at its queue request, returned,
\* or ended by an error
PastValue(i) == output[i] \in {"queue", "done", "threw"}

\* C22 (as claimed): once processLine is past the value of a line whose key
\* starts with reviews/, the destination holds a synchronization-queue entry
\* for the administrator with the resync flags set, also when the value of
\* the line is empty.
C22_ReviewsEnqueued ==
  \A i \in 1..Len(input) :
    (input[i].key[1] = "reviews" /\ PastValue(i)) =>
      \E k \in SyncEntries(dest) : Resyncs(dest, k)


\* the reviews of the file: the keys of its reviews/ and archivedReviews/ lines
\* with a value
LoadedReviews ==
  { input[i].key[2] : i \in {j \in 1..Len(input) :
                               /\ input[j].key[1] \in {"reviews", "archivedReviews"}
                               /\ ~LodashIsEmpty(input[j].value)} }

\* C23 (as claimed): when the load has ended successfully, the destination
\* holds a synchronization-queue entry for every review the file carries,
\* whether it came as a reviews/ line or as an archivedReviews/ line (each
\* review of the file has a pull request of its own).
C23_EveryReviewEnqueued ==
  hpc = "exit0" => Cardinality(SyncEntries(dest)) >= Cardinality(LoadedReviews)


\* C24 (as claimed): when a file carries the same line twice and processLine
\* has finished the first, no step taken for the second changes the
\* destination: entity data and queue entries are as after the first.
C24_LineIdempotent ==
  [][ (Len(input) = 2 /\ input[1] = input[2] /\ output[1] = "done") => dest' = dest ]_vars


\* a destination identifier map, and the image of a user key under it
DestinationMap == [k \in {"github:2"} |-> "github:5"]
Rewritten(userKey) == IF userKey \in DOMAIN DestinationMap THEN DestinationMap[userKey] ELSE GhostKey

\* C25 (as claimed): when processLine takes up a line with a non-empty value,
\* what it writes to the destination is the value rewritten with the
\* destination identifier map: a user key held by the value is stored as its
\* image under the map.
C25_RewrittenOnLoad ==
  [][ \A i \in 1..Len(input) :
        (TakenUp(i) /\ ~LodashIsEmpty(input[i].value) /\ "requester" \in DOMAIN input[i].value.o) =>
          dest'[input[i].key].o["requester"] = Rewritten(input[i].value.o["requester"])
    ]_vars


-----------------------------------------------------------------------------
(* A record written by writeItem (extract_data.js lines 633-638) and read   *)
(* back by the loader's splitter and parser (load_data.js lines 85-86).     *)
(* A text is the sequence of its characters; "dq" is the double quote,      *)
(* "bs" the backslash, "lf" the line feed, and a literal (null, true,       *)
(* false), a digit string or a name without special characters is one       *)
(* piece of text.                                                           *)

True == [t |-> "true", s |-> <<>>, e |-> <<>>]
False == [t |-> "false", s |-> <<>>, e |-> <<>>]
\* the flags argument left out
NoArgument == [t |-> "undefined", s |-> <<>>, e |-> <<>>]
PlaceholdersPresent(b) == Obj(<<[k |-> <<"placeholdersPresent">>, v |-> b]>>)

\* a character written as it is
EscapeNothing(c) == <<c>>
\* JSON.stringify: the characters of a string that are escaped
Escape(c) ==
  CASE c = "dq" -> <<"bs", "dq">>
    [] c = "bs" -> <<"bs", "bs">>
    [] c = "lf" -> <<"bs", "n">>
    [] OTHER -> <<c>>

RECURSIVE EscapeAll(_)
EscapeAll(s) == IF s = <<>> THEN <<>> ELSE Escape(Head(s)) \o EscapeAll(Tail(s))
Quote(s) == <<"dq">> \o EscapeAll(s) \o <<"dq">>

RECURSIVE Stringify(_), StringifyEntries(_)
\* JSON.stringify(value)
Stringify(v) ==
  CASE v.t = "str" -> Quote(v.s)
    [] v.t = "obj" -> <<"{">> \o StringifyEntries(v.e) \o <<"}">>
    [] v.t = "num" -> v.s
    [] OTHER -> <<v.t>>
StringifyEntries(e) ==
  IF e = <<>> THEN <<>>
  ELSE Quote(e[1].k) \o <<":">> \o Stringify(e[1].v)
       \o (IF Len(e) = 1 THEN <<>> ELSE <<",">> \o StringifyEntries(Tail(e)))

\* lines 633-638: the text handed to out.write
RecordLine(key, value, flags) ==
  IF flags # NoArgument
    THEN <<"[">> \o Quote(key) \o <<",", " ">> \o Stringify(value) \o <<",", " ">>
         \o Stringify(flags) \o <<"]", "lf">>
    ELSE <<"[">> \o Quote(key) \o <<",", " ">> \o Stringify(value) \o <<"]", "lf">>

\* JSON.parse: a result is [ok, val, next], next the position after the value
Failed == [ok |-> FALSE, val |-> Null, next |-> 0]
Parsed(val, next) == [ok |-> TRUE, val |-> val, next |-> next]
TextAt(text, i) == IF i \in 1..Len(text) THEN text[i] ELSE "end"

RECURSIVE SkipBlank(_, _)
SkipBlank(text, i) == IF TextAt(text, i) = " " THEN SkipBlank(text, i + 1) ELSE i

\* the characters of a string up to its closing quote, from position i
RECURSIVE ParseChars(_, _, _)
ParseChars(text, i, acc) ==
  LET c == TextAt(text, i)
  IN CASE c = "dq" -> Parsed(acc, i + 1)
       [] c \in {"end", "lf"} -> Failed
       [] c = "bs" ->
            LET d == TextAt(text, i + 1)
            IN CASE d = "n" -> ParseChars(text, i + 2, Append(acc, "lf"))
                 [] d \in {"dq", "bs"} -> ParseChars(text, i + 2, Append(acc, d))
                 [] OTHER -> Failed
       [] OTHER -> ParseChars(text, i + 1, Append(acc, c))
ParseString(text, i) ==
  IF TextAt(text, i) = "dq" THEN ParseChars(text, i + 1, <<>>) ELSE Failed

RECURSIVE ParseValue(_, _), ParseEntries(_, _, _)
ParseValue(text, i0) ==
  LET i == SkipBlank(text, i0)
      c == TextAt(text, i)
  IN CASE c = "dq" ->
            LET r == ParseString(text, i)
            IN IF r.ok THEN Parsed(Str(r.val), r.next) ELSE Failed
       [] c = "{" ->
            IF TextAt(text, SkipBlank(text, i + 1)) = "}"
              THEN Parsed(EmptyObj, SkipBlank(text, i + 1) + 1)
              ELSE ParseEntries(text, i + 1, <<>>)
       [] c = "7" -> Parsed(Num, i + 1)
       [] c = "null" -> Parsed(Null, i + 1)
       [] c = "true" -> Parsed(True, i + 1)
       [] c = "false" -> Parsed(False, i + 1)
       [] OTHER -> Failed
\* the entries of an object from position i0, after those of acc
ParseEntries(text, i0, acc) ==
  LET k == ParseString(text, SkipBlank(text, i0))
  IN IF ~k.ok THEN Failed
     ELSE LET j == SkipBlank(text, k.next)
          IN IF TextAt(text, j) # ":" THEN Failed
             ELSE LET v == ParseValue(text, j + 1)
                  IN IF ~v.ok THEN Failed
                     ELSE LET n == SkipBlank(text, v.next)
                              entries == Append(acc, [k |-> k.val, v |-> v.val])
                          IN CASE TextAt(text, n) = "," -> ParseEntries(text, n + 1, entries)
                               [] TextAt(text, n) = "}" -> Parsed(Obj(entries), n + 1)
                               [] OTHER -> Failed

\* the elements of the array that is the whole text, after those of acc
RECURSIVE ParseElements(_, _, _)
ParseElements(text, i0, acc) ==
  LET v == ParseValue(text, i0)
  IN IF ~v.ok THEN Failed
     ELSE LET n == SkipBlank(text, v.next)
          IN CASE TextAt(text, n) = "," -> ParseElements(text, n + 1, Append(acc, v.val))
               [] TextAt(text, n) = "]" /\ SkipBlank(text, n + 1) = Len(text) + 1 ->
                    Parsed(Append(acc, v.val), n + 1)
               [] OTHER -> Failed
\* line 86: JSON.parse of one line; line 109: [key, value, flags] of the array
ParseLine(text) ==
  LET i == SkipBlank(text, 1)
      r == IF TextAt(text, i) = "[" THEN ParseElements(text, i + 1, <<>>) ELSE Failed
  IN IF r.ok /\ Len(r.val) \in {2, 3}
       THEN [ok |-> TRUE, key |-> r.val[1], value |-> r.val[2],
             flags |-> IF Len(r.val) = 3 THEN r.val[3] ELSE NoArgument]
       ELSE [ok |-> FALSE, key |-> Null, value |-> Null, flags |-> NoArgument]

\* line 85: es.split() cuts what it has at the line feeds; the piece after the
\* last line feed is kept for the next chunk and emitted at the end
RECURSIVE SplitPieces(_, _, _)
SplitPieces(text, piece, pieces) ==
  IF text = <<>> THEN Append(pieces, piece)
  ELSE IF Head(text) = "lf" THEN SplitPieces(Tail(text), <<>>, Append(pieces, piece))
  ELSE SplitPieces(Tail(text), Append(piece, Head(text)), pieces)
SplitChunk(soFar, chunk) ==
  LET pieces == SplitPieces(soFar \o chunk, <<>>, <<>>)
  IN [lines |-> SubSeq(pieces, 1, Len(pieces) - 1), soFar |-> pieces[Len(pieces)]]
\* the lines of a file read as the two chunks chunk1 and chunk2
SplitFile(chunk1, chunk2) ==
  LET a == SplitChunk(<<>>, chunk1)
      b == SplitChunk(a.soFar, chunk2)
  IN a.lines \o b.lines \o <<b.soFar>>

\* line 86: es.parse skips an empty line and parses every other
RECURSIVE ParseLines(_)
ParseLines(lines) ==
  IF lines = <<>> THEN <<>>
  ELSE (IF Head(lines) = <<>> THEN <<>> ELSE <<ParseLine(Head(lines))>>) \o ParseLines(Tail(lines))

\* the records written: strings over ordinary and escaped characters, objects
\* of such strings, nested once
RoundChars == {"a", "n", "dq", "bs", "lf"}
RoundStrings == UNION { [1..n -> RoundChars] : n \in 0..2 }
RoundKeys == { <<"a">>, <<"dq">>, <<"lf", "n">>, <<"bs", "n">> }
RoundLeaves == { Str(s) : s \in RoundStrings } \cup {Num}
RoundObjects == { Obj(<<[k |-> k, v |-> v]>>) : k \in RoundKeys, v \in RoundLeaves }
RoundValues ==
  RoundLeaves \cup RoundObjects
  \cup { Obj(<<[k |-> k, v |-> Obj(<<[k |-> <<"a", "bs">>, v |-> v]>>)], [k |-> <<"b">>, v |-> Num]>>)
         : k \in RoundKeys, v \in {Str(<<"lf">>), Str(<<"bs", "dq">>), Num} }

RoundInit ==
  /\ RewriterIdle
  /\ PipelineIdle
  /\ input \in [key : { <<"reviews", "/", "r1">>, <<"users", "/", "dq", "lf">> },
                value : RoundValues,
                flags : {NoArgument, PlaceholdersPresent(True), PlaceholdersPresent(False)}]
  /\ output = [file |-> <<>>, items |-> <<>>]
  /\ hpc = "record"
  /\ dest = <<>>

RoundFrame == UNCHANGED <<input, dest, rewriteVars, pipelineVars>>

\* lines 633-638: the record is written
RoundWrite ==
  /\ hpc = "record"
  /\ output' = [output EXCEPT !.file = RecordLine(input.key, input.value, input.flags)]
  /\ hpc' = "written"
  /\ RoundFrame

\* load_data.js lines 78-86: the file is read as two chunks, cut after cut
\* characters, split and parsed
RoundRead(cut) ==
  /\ hpc = "written"
  /\ output' = [output EXCEPT
                  !.items = ParseLines(SplitFile(SubSeq(output.file, 1, cut),
                                                 SubSeq(output.file, cut + 1, Len(output.file))))]
  /\ hpc' = "read"
  /\ RoundFrame

RoundNext ==
  \/ RoundWrite
  \/ \E cut \in 0..Len(output.file) : RoundRead(cut)

SpecRound == RoundInit /\ [][RoundNext]_vars

-----------------------------------------------------------------------------
(* The uploaded-file URLs of comment bodies, from extraction to load, with  *)
(* the same uploaded-files URL configured on both sides.  A body is a       *)
(* sequence of pieces of text; Uploaded is the configured URL prefix,       *)
(* Placeholder is PLACEHOLDER_URL, a parenthesis is a piece of its own.     *)

Uploaded == "https://files.example"
Placeholder == "https://REVIEWABLE_UPLOADED_FILES.URL"

ReplaceAll(body, from, to) == [i \in 1..Len(body) |-> IF body[i] = from THEN to ELSE body[i]]
\* a character the second group of uploadedFilesUrlRegex stops at
IsParen(piece) == piece \in {"(", ")"}
\* extract_data.js lines 268-271: a match of uploadedFilesUrlRegex starts at
\* piece i; the prefix is not matched again inside the rest of an earlier
\* match, which runs on to the next parenthesis or to the end of the body
StartsMatch(body, i) ==
  /\ body[i] = Uploaded
  /\ \A j \in 1..(i - 1) :
       body[j] = Uploaded => \E k \in (j + 1)..(i - 1) : IsParen(body[k])
\* the second group of the match that starts at piece i
RestOf(body, i) ==
  LET stops == {k \in (i + 1)..Len(body) : IsParen(body[k])}
      last == IF stops = {} THEN Len(body)
              ELSE (CHOOSE k \in stops : \A x \in stops : k <= x) - 1
  IN SubSeq(body, i + 1, last)
\* extract_data.js lines 511-522: the prefix of every match becomes the
\* placeholder, what follows it is kept
PlaceBody(body) ==
  [i \in 1..Len(body) |-> IF StartsMatch(body, i) THEN Placeholder ELSE body[i]]
\* a body left as it was read
RestoreNothing(body) == body
\* load_data.js line 155
RestoreBody(body) == ReplaceAll(body, Placeholder, Uploaded)

\* comment.markdownBody is there and not the empty string
HasBody(comment) == "markdownBody" \in DOMAIN comment /\ comment["markdownBody"] # <<>>
\* the review with Change applied to every comment of its discussions
ForEachComment(review, Change(_)) ==
  IF "discussions" \notin DOMAIN review THEN review
  ELSE Put(review, "discussions",
           [d \in DOMAIN review["discussions"] |->
              LET discussion == review["discussions"][d]
              IN IF "comments" \notin DOMAIN discussion THEN discussion
                 ELSE Put(discussion, "comments",
                          [c \in DOMAIN discussion["comments"] |-> Change(discussion["comments"][c])])])

\* extract_data.js lines 509-525
PlaceComment(comment) ==
  IF HasBody(comment) THEN Put(comment, "markdownBody", PlaceBody(comment["markdownBody"])) ELSE comment
\* load_data.js lines 153-165: gh.request('POST /markdown') renders the body
TweakComment(comment) ==
  IF ~HasBody(comment) \/ RestoreBody(comment["markdownBody"]) = comment["markdownBody"]
    THEN comment
    ELSE Put(Put(comment, "markdownBody", RestoreBody(comment["markdownBody"])),
             "htmlBody", <<"html of">> \o RestoreBody(comment["markdownBody"]))
\* load_data.js lines 149-168
TweakReview(review) == ForEachComment(review, TweakComment)

\* gzip and base64 of the JSON text of a review, and back
Zip(review) == [gzip |-> review]
Unzip(payload) == payload.gzip

\* extract_data.js lines 469-482: the line written for a review found live,
\* or found in the archive with the payload review
ExtractedLine(review, archived) ==
  LET stripped == ForEachComment(StripReview(review, TRUE, EmptyMap), PlaceComment)
      placeholdersPresent == stripped # StripReview(review, TRUE, EmptyMap)
  IN IF archived
       THEN [key |-> <<"archivedReviews", "r1">>,
             value |-> LObj([f \in {"payload"} |-> Zip(stripped)]),
             flags |-> IF placeholdersPresent THEN "true" ELSE "false"]
       ELSE [key |-> <<"reviews", "r1">>, value |-> LObj(stripped), flags |-> "none"]

\* load_data.js lines 110-120, with uploadedFilesUrl set
Tweaked(line) ==
  IF LodashIsEmpty(line.value) THEN line.value
  ELSE IF line.key[1] = "reviews" THEN LObj(TweakReview(line.value.o))
  ELSE IF line.key[1] = "archivedReviews" /\ line.flags = "true"
    THEN LObj(Put(line.value.o, "payload", Zip(TweakReview(Unzip(line.value.o["payload"])))))
  ELSE line.value

\* the bodies of the comments of a review
Texts == {Uploaded, Placeholder, "/a.png", "see ", ")"}
Bodies == UNION { [1..n -> Texts] : n \in 0..2 }
Comments == { [f \in {"author"} |-> "a"] }
            \cup { [f \in {"author", "markdownBody"} |-> IF f = "author" THEN "a" ELSE b] : b \in Bodies }
BodyReviews ==
  { [f \in {"core", "discussions"} |->
       IF f = "core" THEN ReviewCore
       ELSE [d \in {"d1"} |-> [x \in {"comments"} |-> comments]]]
    : comments \in UNION { [K -> Comments] : K \in {{<<"c", "1">>}, {<<"c", "1">>, <<"c", "2">>}} } }

BodiesInit ==
  /\ RewriterIdle
  /\ PipelineIdle
  /\ input \in [review : BodyReviews, archived : BOOLEAN]
  /\ output = <<>>
  /\ hpc = "review"
  /\ dest = EmptyMap

BodiesFrame == UNCHANGED <<input, rewriteVars, pipelineVars>>

\* extract_data.js lines 469-482
ExtractReview ==
  /\ hpc = "review"
  /\ output' = <<ExtractedLine(input.review, input.archived)>>
  /\ hpc' = "extracted"
  /\ UNCHANGED dest
  /\ BodiesFrame

\* load_data.js lines 109-147 for the line written
LoadReview ==
  /\ hpc = "extracted"
  /\ LET line == [output[1] EXCEPT !.value = Tweaked(output[1])]
     IN dest' = Queue(WriteValue(dest, line.key, line.value), line)
  /\ hpc' = "loaded"
  /\ UNCHANGED output
  /\ BodiesFrame

BodiesNext == ExtractReview \/ LoadReview

SpecBodies == BodiesInit /\ [][BodiesNext]_vars

\* the review the destination holds after the load
LoadedReview ==
  IF input.archived THEN Unzip(dest[<<"archivedReviews", "r1">>].o["payload"])
  ELSE dest[<<"reviews", "r1">>].o
CommentsOf(review) == review["discussions"]["d1"]["comments"]
Contains(body, text) == \E i \in 1..Len(body) : body[i] = text
\* comment c of the source review has a body, and the loaded review has the
\* same body there
BodyRestored(c) ==
  HasBody(CommentsOf(input.review)[c]) =>
    CommentsOf(LoadedReview)[c]["markdownBody"] = CommentsOf(input.review)[c]["markdownBody"]

-----------------------------------------------------------------------------
(* The output stream under concurrent writeItem calls.  input gives for     *)
(* each worker how many records it writes, one after the other; output is   *)
(* the position of each worker, the calls of out.write in the order they    *)
(* were made, the chunks the stream holds and the characters in the file.   *)

\* most workers writing at once
MaxWriters == 2

\* a record written without its line feed
LineWithoutFeed(w, k) == << <<w, k, "[">>, <<w, k, "]">> >>
\* lines 634-637: the text of the k-th record of worker w, one string
LineOf(w, k) == << <<w, k, "[">>, <<w, k, "]">>, <<w, k, "lf">> >>

OutInit ==
  /\ RewriterIdle
  /\ PipelineIdle
  /\ \E n \in 1..MaxWriters : input \in [1..n -> 1..2]
  /\ output = [pc |-> [w \in DOMAIN input |-> "ready"], n |-> [w \in DOMAIN input |-> 0],
               calls |-> <<>>, chunks |-> <<>>, file |-> <<>>]
  /\ hpc = "open"
  /\ dest = <<>>

OutFrame == UNCHANGED <<input, dest, rewriteVars, pipelineVars>>

\* lines 633-638: writeItem hands the whole line to out.write in one call,
\* and the stream takes the chunk behind those it holds
WriteItemCall(w) ==
  /\ hpc = "open"
  /\ output.pc[w] = "ready"
  /\ output.n[w] < input[w]
  /\ output' = [output EXCEPT !.pc[w] = "write",
                              !.n[w] = @ + 1,
                              !.calls = Append(@, <<w, output.n[w] + 1>>),
                              !.chunks = Append(@, LineOf(w, output.n[w] + 1))]
  /\ UNCHANGED hpc
  /\ OutFrame

\* the promise of out.write is resolved and the worker goes on
OutWriteReturns(w) ==
  /\ hpc = "open"
  /\ output.pc[w] = "write"
  /\ output' = [output EXCEPT !.pc[w] = "ready"]
  /\ UNCHANGED hpc
  /\ OutFrame

\* the stream writes the next character of its first chunk to the file
OutFlush ==
  /\ output.chunks # <<>>
  /\ LET chunk == Head(output.chunks)
     IN output' = [output EXCEPT
                     !.file = Append(@, Head(chunk)),
                     !.chunks = IF Len(chunk) = 1 THEN Tail(@) ELSE <<Tail(chunk)>> \o Tail(@)]
  /\ UNCHANGED hpc
  /\ OutFrame

\* line 320: await out.end(), after every worker has returned
OutEnd ==
  /\ hpc = "open"
  /\ \A w \in DOMAIN input : output.pc[w] = "ready" /\ output.n[w] = input[w]
  /\ output.chunks = <<>>
  /\ hpc' = "ended"
  /\ UNCHANGED output
  /\ OutFrame

OutNext ==
  \/ \E w \in DOMAIN input : WriteItemCall(w)
  \/ \E w \in DOMAIN input : OutWriteReturns(w)
  \/ OutFlush
  \/ OutEnd

SpecOut == OutInit /\ [][OutNext]_vars

\* the complete lines of the calls, in the order of the calls
RECURSIVE LinesOfCalls(_)
LinesOfCalls(made) ==
  IF made = <<>> THEN <<>>
  ELSE << <<made[1][1], made[1][2], "[">>, <<made[1][1], made[1][2], "]">>,
          <<made[1][1], made[1][2], "lf">> >>
       \o LinesOfCalls(Tail(made))
IsPrefix(s, t) == Len(s) <= Len(t) /\ SubSeq(t, 1, Len(s)) = s

\* C29: in every state the file is the beginning of the complete lines of the
\* write calls in the order the calls were made, so no two records are mixed
\* within a line and no line is out of order; once the stream has ended the
\* file is exactly those lines.
C29_CompleteLinesInOrder ==
  /\ IsPrefix(output.file, LinesOfCalls(output.calls))
  /\ hpc = "ended" => output.file = LinesOfCalls(output.calls)

\* C29 witness: two workers had a write in flight at once, the second call
\* made while the first line was only partly in the file, and the file ended
\* with both lines.
C29_Witness ==
  /\ Len(output.calls) >= 2
  /\ output.calls[1][1] # output.calls[2][1]
  /\ \A w \in DOMAIN input : output.pc[w] = "write"
  /\ Len(output.file) = 1


\* ---------------------------------------------------------------------------
\* Progress counter of the extraction phases
\* ---------------------------------------------------------------------------

\* the worker of item i of phase p returns normally in this step
Completes(p, i) ==
  /\ i \in DOMAIN wk[p]
  /\ i \in DOMAIN wk'[p]
  /\ wk[p][i] # "done"
  /\ wk'[p][i] = "done"

\* C30: in the review and user phases the progress counter grows by exactly
\* one in the step in which the worker of an item completes, whichever branch
\* the worker took (found, absent, skipped), and no step ever lowers the
\* counter.
C30_OpPerItem ==
  [][ /\ paceOps' >= paceOps
      /\ \A p \in {"reviews", "users"} : \A i \in DOMAIN wk[p] :
           Completes(p, i) => paceOps' = paceOps + 1 ]_vars


-----------------------------------------------------------------------------
(* Termination of the extraction run *)

\* every continuation the event loop holds is run at some time, and every
\* store request, write and close is answered at some time
SpecLive == PipelineInit /\ [][Next]_vars /\ WF_vars(Next)

\* some store request of the run came back with a store error
StoreError == LogFailed \/ \E p \in Phases : FetchFailed(p)
\* the run ended with status 0 after all phases, the close of the stream and
\* the summary
EndedWell ==
  /\ exit = "0"
  /\ \A p \in Phases : status[p] = "resolved"
  /\ \A i \in DOMAIN unmapped.wk : unmapped.wk[i] = "done"

\* C31 (as claimed): unless a store request comes back with a store error,
\* the run goes through all its phases, closes the output stream, prints the
\* summary and ends with status 0; it never ends with status 0 before that.
C31_Completes ==
  /\ [](exit = "0" => EndedWell)
  /\ <>(EndedWell \/ StoreError)

\* C31 (amended): the same for a run whose System record is present and
\* passes the encryption check of extractSystem.
C31_CompletesAmended ==
  /\ [](exit = "0" => EndedWell)
  /\ (store.rest.system \notin {"bad", "badBang", "absent"}) => <>(EndedWell \/ StoreError)

\* C31 witness: a run with a missing review, a mapped user without a record
\* and two ghosted users ended with status 0.
C31_Witness ==
  /\ EndedWell
  /\ ~StoreError
  /\ missingReviewKeys # <<>>
  /\ unknownUsers # <<>>
  /\ Len(unmapped.wk) = 2


-----------------------------------------------------------------------------
(* The attachment downloads of the review phase, with --download given and  *)
(* an uploaded-files URL configured.  input holds the reviews of the phase: *)
(* the key and the comment bodies of each; output holds the position of     *)
(* each review worker and the keys of the lines written; dest holds         *)
(* downloadedFiles, brokenFiles and the download() calls made so far.       *)

\* most reviews whose workers run at once
MaxReviews == 2

\* the comment bodies of the reviews
DownloadBodies ==
  { <<"see ">>,
    <<"(", Uploaded, "/a.png", ")">>,
    <<Uploaded, "/a.png">>,
    <<"(", Uploaded, "/a.png", ")", "(", Uploaded, "/a.png", ")">>,
    <<"(", Uploaded, "/a.png", ")", "(", Uploaded, "/b.png", ")">> }

\* lines 511-513: the URLs of the matches of one body, in order
RECURSIVE UrlsFrom(_, _)
UrlsFrom(body, i) ==
  IF i > Len(body) THEN <<>>
  ELSE IF StartsMatch(body, i)
    THEN << <<Uploaded>> \o RestOf(body, i) >> \o UrlsFrom(body, i + 1)
  ELSE UrlsFrom(body, i + 1)
\* the URLs of the matches of the bodies of one review, in order
RECURSIVE UrlsOf(_)
UrlsOf(bodies) ==
  IF bodies = <<>> THEN <<>> ELSE UrlsFrom(Head(bodies), 1) \o UrlsOf(Tail(bodies))

\* a scheduled set that never holds the URL
HasNever(files, url) == FALSE
\* line 514: downloadedFiles.has(url)
Has(files, url) == url \in files

\* lines 514-521 for the URLs of one review, in order: a URL that is not in
\* downloadedFiles is added to it and download() is called for it
RECURSIVE Schedule(_, _, _)
Schedule(st, key, urls) ==
  IF urls = <<>> THEN st
  ELSE LET url == Head(urls)
       IN IF Has(st.downloadedFiles, url) THEN Schedule(st, key, Tail(urls))
          ELSE Schedule([st EXCEPT
                           !.downloadedFiles = @ \cup {url},
                           !.downloads = Append(@, [url |-> url, key |-> key,
                                                    outcome |-> "pending",
                                                    promise |-> "pending"])],
                        key, Tail(urls))

\* a rejection that nothing handles stays a rejection
NotCaught(outcome) == outcome
\* line 517: the promise .catch(handler) returns is fulfilled once the
\* handler has returned
Caught(outcome) == "fulfilled"

\* the download() calls review key made
PromisesOf(key) == {d \in DOMAIN dest.downloads : dest.downloads[d].key = key}

DownloadInit ==
  /\ RewriterIdle
  /\ PipelineIdle
  /\ \E n \in 1..MaxReviews :
       \E bodies \in [1..n -> DownloadBodies] :
         input = [w \in 1..n |-> [key |-> <<"r", w>>, bodies |-> <<bodies[w]>>]]
  /\ output = [wk |-> [w \in DOMAIN input |-> "get"], written |-> <<>>]
  /\ hpc = "running"
  /\ dest = [downloadedFiles |-> {}, brokenFiles |-> <<>>, downloads |-> <<>>]

DownloadFrame == UNCHANGED <<input, rewriteVars, pipelineVars>>

\* lines 469-472 and 504-544: the live review arrived and stripReview ran up
\* to its await; without a download of its own it returns at once and
\* writeItem is called
ReviewArrives(w) ==
  /\ hpc = "running"
  /\ output.wk[w] = "get"
  /\ LET st == Schedule(dest, input[w].key, UrlsOf(input[w].bodies))
     IN /\ dest' = st
        /\ output' = IF Len(st.downloads) = Len(dest.downloads)
                       THEN [output EXCEPT !.wk[w] = "write",
                                           !.written = Append(@, input[w].key)]
                       ELSE [output EXCEPT !.wk[w] = "downloads"]
  /\ UNCHANGED hpc
  /\ DownloadFrame

\* download(url, dest) fulfilled
DownloadSucceeds(d) ==
  /\ hpc = "running"
  /\ dest.downloads[d].outcome = "pending"
  /\ dest' = [dest EXCEPT !.downloads[d].outcome = "ok",
                          !.downloads[d].promise = "fulfilled"]
  /\ UNCHANGED <<output, hpc>>
  /\ DownloadFrame

\* lines 517-520: download(url, dest) rejected and the handler ran
DownloadFails(d) ==
  /\ hpc = "running"
  /\ dest.downloads[d].outcome = "pending"
  /\ dest' = [dest EXCEPT !.downloads[d].outcome = "failed",
                          !.downloads[d].promise = Caught("rejected"),
                          !.brokenFiles = Append(@, [url |-> dest.downloads[d].url,
                                                     key |-> dest.downloads[d].key])]
  /\ UNCHANGED <<output, hpc>>
  /\ DownloadFrame

\* lines 544-545 and 472: Promise.all settled; stripReview returns and
\* writeItem is called, or stripReview throws what a promise was rejected
\* with, the worker throws and the run ends with process.exit(1)
StripReturns(w) ==
  /\ hpc = "running"
  /\ output.wk[w] = "downloads"
  /\ LET mine == PromisesOf(input[w].key)
     IN IF \E d \in mine : dest.downloads[d].promise = "rejected"
          THEN /\ hpc' = "exit1"
               /\ output' = [output EXCEPT !.wk[w] = "threw"]
          ELSE /\ \A d \in mine : dest.downloads[d].promise = "fulfilled"
               /\ output' = [output EXCEPT !.wk[w] = "write",
                                           !.written = Append(@, input[w].key)]
               /\ UNCHANGED hpc
  /\ UNCHANGED dest
  /\ DownloadFrame

\* lines 472 and 487: the line was written; pace.op(); the worker returns
ReviewWritten(w) ==
  /\ hpc = "running"
  /\ output.wk[w] = "write"
  /\ output' = [output EXCEPT !.wk[w] = "done"]
  /\ UNCHANGED <<dest, hpc>>
  /\ DownloadFrame

\* lines 316-336: every worker returned; the run goes on to its end
DownloadEnd ==
  /\ hpc = "running"
  /\ \A w \in DOMAIN input : output.wk[w] = "done"
  /\ hpc' = "exit0"
  /\ UNCHANGED <<output, dest>>
  /\ DownloadFrame

DownloadNext ==
  \/ \E w \in DOMAIN input : ReviewArrives(w)
  \/ \E d \in DOMAIN dest.downloads : DownloadSucceeds(d)
  \/ \E d \in DOMAIN dest.downloads : DownloadFails(d)
  \/ \E w \in DOMAIN input : StripReturns(w)
  \/ \E w \in DOMAIN input : ReviewWritten(w)
  \/ DownloadEnd

\* every request, download and write is answered at some time
SpecDownload == DownloadInit /\ [][DownloadNext]_vars /\ WF_vars(DownloadNext)

\* how many entries of the sequence seq satisfy Test
CountOf(seq, Test(_)) == Cardinality({i \in DOMAIN seq : Test(seq[i])})

\* each failed download is in the list of broken files once, no worker
\* threw, and a run that ended wrote the line of every review once
DownloadsRecovered ==
  /\ hpc # "exit1"
  /\ \A w \in DOMAIN input : output.wk[w] # "threw"
  /\ \A d \in DOMAIN dest.downloads :
       LET call == dest.downloads[d]
       IN CountOf(dest.brokenFiles, LAMBDA b : b.url = call.url /\ b.key = call.key)
            = (IF call.outcome = "failed" THEN 1 ELSE 0)
  /\ hpc = "exit0" =>
       \A w \in DOMAIN input : CountOf(output.written, LAMBDA k : k = input[w].key) = 1

\* C32: a failed download never makes stripReview or the review phase throw:
\* its URL is put on the list of broken files, the line of the review is
\* still written, and the run reaches its successful end.
C32_DownloadFailureRecovered == []DownloadsRecovered /\ <>(hpc = "exit0")

\* C32 witness: a run in which a download failed ended with status 0 and
\* with the line of the review written.
C32_Witness ==
  /\ hpc = "exit0"
  /\ \E d \in DOMAIN dest.downloads :
       /\ dest.downloads[d].outcome = "failed"
       /\ \E i \in DOMAIN output.written : output.written[i] = dest.downloads[d].key

\* C33: over the run no URL is handed to download() twice, whatever the
\* order in which the review workers that meet it run.
C33_ScheduledOnce ==
  \A d1, d2 \in DOMAIN dest.downloads :
    dest.downloads[d1].url = dest.downloads[d2].url => d1 = d2

\* C33 witness: two reviews name the same URL, the second worker ran first,
\* both ran past the scheduling, and the URL was handed to download() once.
C33_Witness ==
  /\ Len(input) = 2
  /\ UrlsOf(input[1].bodies) # <<>>
  /\ \E i \in DOMAIN UrlsOf(input[2].bodies) :
       UrlsOf(input[2].bodies)[i] = UrlsOf(input[1].bodies)[1]
  /\ output.wk[1] # "get" /\ output.wk[2] # "get"
  /\ dest.downloads[1].key = input[2].key
  /\ Cardinality({d \in DOMAIN dest.downloads :
                    dest.downloads[d].url = UrlsOf(input[1].bodies)[1]}) = 1


-----------------------------------------------------------------------------
(* The encryption check of extractSystem *)

\* the System record was fetched and one of its markers is not its sentinel
MarkersDiffer ==
  /\ store.rest.system # "absent"
  /\ Star(store.rest.system) # "*" \/ Bang(store.rest.system) # "!"
\* the same with a marker that is not the empty string
FilledMarkersDiffer ==
  /\ store.rest.system # "absent"
  /\ \/ Star(store.rest.system) \notin {"", "*"}
     \/ Bang(store.rest.system) \notin {"", "!"}
SystemFetched == wk["system"] # <<>> /\ wk["system"][1] \notin {"get", "failed"}
\* the run has ended with an error, no line was written and no later phase
\* was entered or issued a request
AbortedAtSystem ==
  /\ exit = "1"
  /\ wk["system"] = <<"threw">>
  /\ written = EmptyBag
  /\ \A p \in Phases \ {"system"} : status[p] = "notStarted" /\ issued[p] = 0

\* C34 (as claimed): once a System record whose star is not '*' or whose bang
\* is not '!' has been fetched, the run has ended with an error, no line was
\* written and no later phase was entered or issued a request.
C34_BadMarkersAbort == (MarkersDiffer /\ SystemFetched) => AbortedAtSystem

\* C34 (amended): the same for a star that is not empty and not '*', or a
\* bang that is not empty and not '!'.
C34_FilledBadMarkersAbort == (FilledMarkersDiffer /\ SystemFetched) => AbortedAtSystem

\* C34 witness: a System record with a bang other than '!' was fetched and
\* the run ended there.
C34_Witness ==
  /\ store.rest.system = "badBang"
  /\ SystemFetched
  /\ AbortedAtSystem


-----------------------------------------------------------------------------
(* The tracker participants after stripReview *)

\* the participants of tracker t of a review
ParticipantsOf(review, t) == Field(review["tracker"][t], "participants")
\* the participants of tracker t of the source review that the run keeps
KeptParticipants(t) ==
  {u \in DOMAIN ParticipantsOf(input.review, t) :
     \/ input.identityUserMap
     \/ u \in DOMAIN input.userMap
     \/ ParticipantsOf(input.review, t)[u].role # "mentioned"}

\* C35: after stripReview every tracker holds exactly the participants it had
\* that are not both mentioned-only and without an entry in the user map,
\* each as it was; in identity mode it holds all of them.
C35_ParticipantsFiltered ==
  (hpc = "stripped" /\ "tracker" \in DOMAIN input.review) =>
    /\ DOMAIN output["tracker"] = DOMAIN input.review["tracker"]
    /\ \A t \in DOMAIN input.review["tracker"] :
         /\ DOMAIN ParticipantsOf(output, t) = KeptParticipants(t)
         /\ \A u \in KeptParticipants(t) :
              ParticipantsOf(output, t)[u] = ParticipantsOf(input.review, t)[u]
         /\ input.identityUserMap =>
              DOMAIN ParticipantsOf(output, t) = DOMAIN ParticipantsOf(input.review, t)

\* C35 witness: with the map {github:2 -> github:3}, of the mentioned
\* github:2, the mentioned github:3 and the reviewer github:4 only github:3
\* was removed.
C35_Witness ==
  /\ hpc = "stripped"
  /\ ~input.identityUserMap
  /\ "tracker" \in DOMAIN input.review
  /\ DOMAIN ParticipantsOf(input.review, "t1") = {"github:2", "github:3", "github:4"}
  /\ DOMAIN ParticipantsOf(output, "t1") = {"github:2", "github:4"}


-----------------------------------------------------------------------------
(* The user phase in identity mode (no --users): userMap starts with the    *)
(* user keys the earlier phases registered and grows while the user records *)
(* are rewritten.  input holds the user records of the source store after   *)
(* the omissions of lines 588-592; output holds the keys forEachOfLimit     *)
(* took from userMap, the position of each worker, the keys whose record    *)
(* was asked for, the values written, and (known) the keys userMap had      *)
(* when extractUsers was called.                                            *)

\* the user keys of the source instance, in the order of their registration
SourceUsers == <<"github:2", "github:3", "github:4">>
\* a user record that names the user who invited its user, or nobody
UserRecord(inviter) ==
  IF inviter = "nobody"
    THEN Obj(<<[k |-> <<"onboarding">>, v |-> Str(<<"a">>)]>>)
    ELSE Obj(<<[k |-> <<"onboarding">>, v |-> Str(<<inviter>>)]>>)
\* the user records of a source store: any user may be without a record
UserStores ==
  UNION { [K -> {UserRecord(i) : i \in {"nobody", "github:3", "github:4"}}]
          : K \in SUBSET {"github:2", "github:3", "github:4"} }

\* an iteration that visits the first key only
ObjectKeysFirst(map) == SubSeq(SelectSeq(SourceUsers, LAMBDA k : k \in DOMAIN map), 1, 1)
\* forEachOfLimit (async) over an object: the keys are read once, with
\* Object.keys, when the iteration starts
ObjectKeys(map) == SelectSeq(SourceUsers, LAMBDA k : k \in DOMAIN map)

IdentityInit ==
  /\ identityUserMap = TRUE
  /\ \E known \in SUBSET {"github:2", "github:3"} : userMap = [k \in known |-> k]
  /\ ghostedUsers = <<>>
  /\ paceTotal = Cardinality(DOMAIN userMap)
  /\ out = <<>>
  /\ rpc = "none"
  /\ wiKey = <<>>
  /\ wiValue = Null
  /\ wiResult = Null
  /\ wiMap = EmptyMap
  /\ reResult = Null
  /\ calls = <<>>
  /\ PipelineIdle
  /\ input \in UserStores
  /\ output = [keys |-> <<>>, sched |-> NewSched, wk |-> <<>>, fetched |-> {},
               unknownUsers |-> <<>>, written |-> <<>>, known |-> DOMAIN userMap]
  /\ hpc = "users"
  /\ dest = <<>>

IdentityFrame == UNCHANGED <<input, dest, pipelineVars, identityUserMap, out, rpc, wiKey,
                             wiValue, wiResult, wiMap, reResult, calls>>

\* lines 578-583: extractUsers returns at once on an empty userMap; else
\* forEachOfLimit takes the keys of userMap and starts the workers, each of
\* which asks for the record of its user
IdentityUsersCall ==
  /\ hpc = "users"
  /\ IF DOMAIN userMap = {}
       THEN /\ hpc' = "resolved"
            /\ UNCHANGED output
       ELSE LET keys == ObjectKeys(userMap)
                s == Replenish(NewSched, 25, Len(keys))
            IN /\ output' = [output EXCEPT
                               !.keys = keys,
                               !.sched = s,
                               !.wk = [j \in 1..Len(keys) |->
                                         IF j \in StartedBy(NewSched, s) THEN "get"
                                         ELSE "waiting"],
                               !.fetched = {keys[j] : j \in StartedBy(NewSched, s)}]
               /\ hpc' = "running"
  /\ UNCHANGED <<userMap, ghostedUsers, paceTotal>>
  /\ IdentityFrame

\* the worker of item i returned: forEachOfLimit starts what the limit
\* allows and calls back after the last one
WorkerReturned(i) ==
  LET n == Len(output.keys)
      s2 == IterateeCallback(output.sched, 25, n, FALSE)
      started == StartedBy(output.sched, s2)
  IN [output EXCEPT
        !.sched = s2,
        !.wk = [j \in 1..n |-> IF j = i THEN "done"
                               ELSE IF j \in started THEN "get"
                               ELSE output.wk[j]],
        !.fetched = @ \cup {output.keys[j] : j \in started}]

\* lines 583-587 and 622-624: the record arrived; a user without a record is
\* noted and the worker returns; else writeItem rewrites the record, and
\* mapUserKey registers every user key it meets there for the first time
IdentityUserArrives(i) ==
  /\ hpc = "running"
  /\ i \in DOMAIN output.wk
  /\ output.wk[i] = "get"
  /\ LET oldUserKey == output.keys[i]
     IN IF oldUserKey \notin DOMAIN input
          THEN /\ output' = [WorkerReturned(i) EXCEPT
                               !.unknownUsers = Append(@, oldUserKey)]
               /\ hpc' = IF CalledBack(WorkerReturned(i).sched) THEN "resolved" ELSE hpc
               /\ UNCHANGED <<userMap, ghostedUsers, paceTotal>>
          ELSE LET r == MapAllUserKeys(ProgramState, input[oldUserKey],
                                       <<"users", "/", userMap[oldUserKey]>>)
               IN /\ userMap' = r.st.userMap
                  /\ ghostedUsers' = r.st.ghostedUsers
                  /\ paceTotal' = r.st.paceTotal
                  /\ output' = [output EXCEPT !.wk[i] = "write",
                                              !.written = Append(@, r.val)]
                  /\ UNCHANGED hpc
  /\ IdentityFrame

\* lines 624-627: the line was written; pace.op(); the worker returns
IdentityUserWritten(i) ==
  /\ hpc = "running"
  /\ i \in DOMAIN output.wk
  /\ output.wk[i] = "write"
  /\ output' = WorkerReturned(i)
  /\ hpc' = IF CalledBack(WorkerReturned(i).sched) THEN "resolved" ELSE hpc
  /\ UNCHANGED <<userMap, ghostedUsers, paceTotal>>
  /\ IdentityFrame

IdentityNext ==
  \/ IdentityUsersCall
  \/ \E i \in DOMAIN output.wk : IdentityUserArrives(i)
  \/ \E i \in DOMAIN output.wk : IdentityUserWritten(i)

SpecIdentity == IdentityInit /\ [][IdentityNext]_vars

-----------------------------------------------------------------------------
(* The loader with an uploaded-files URL configured, over a file that the   *)
(* extraction wrote.  input holds the lines of the file and the destination *)
(* store before the load; output is the position of the processLine call of *)
(* each line.  The store applies the requests of the loader in the order    *)
(* in which they are issued.                                                *)

\* a review with one comment, whose body is body
ReviewWith(body) ==
  [f \in {"core", "discussions"} |->
     IF f = "core" THEN ReviewCore
     ELSE [d \in {"d1"} |->
             [x \in {"comments"} |->
                [c \in {<<"c", "1">>} |->
                   [g \in {"author", "markdownBody"} |->
                      IF g = "author" THEN "a" ELSE body]]]]]
\* a line of the file with no flags
Plain(key, value) == [key |-> key, value |-> value, flags |-> "none"]
\* lines the extraction writes: reviews found live and in the archive, with
\* and without uploaded files, the two records of users mapped to one new
\* key, a repository and a watermark
ExtractedLines ==
  { [ExtractedLine(ReviewWith(<<Uploaded, "/a.png">>), FALSE) EXCEPT !.key = <<"reviews", "r1">>],
    [ExtractedLine(ReviewWith(<<"see ">>), FALSE) EXCEPT !.key = <<"reviews", "r2">>],
    [ExtractedLine(ReviewWith(<<Uploaded, "/b.png">>), TRUE) EXCEPT !.key = <<"archivedReviews", "r3">>],
    [ExtractedLine(ReviewWith(<<"see ">>), TRUE) EXCEPT !.key = <<"archivedReviews", "r4">>],
    Plain(<<"users", "github:3">>, LObj([f \in {"state"} |-> "s1"])),
    Plain(<<"users", "github:3">>, LObj([f \in {"state", "onboarding"} |-> "s2"])),
    Plain(<<"repositories", "acme", "widgets">>, LObj([f \in {"core"} |-> "c"])),
    Plain(<<"system", "oldestUsedClientBuild">>, LStr(1)) }
ExtractedFiles ==
  { file \in UNION { [1..n -> ExtractedLines] : n \in 0..MaxLines } :
      \A i, j \in DOMAIN file : file[i] = file[j] => i = j }
TweakStores ==
  { EmptyMap,
    [k \in {<<"users", "github:3">>, <<"reviews", "r1">>} |->
       IF k[1] = "users" THEN LObj([f \in {"state", "index"} |-> "old"])
       ELSE LObj([f \in {"sentiments"} |-> "old"])] }

\* a loader that suspends before every write
SuspendsAlways(line) == TRUE
\* lines 110-120: processLine awaits tweakReview before it writes the value
\* of a review, or of an archived review flagged to hold placeholders
Suspends(line) ==
  /\ ~LodashIsEmpty(line.value)
  /\ \/ line.key[1] = "reviews"
     \/ line.key[1] = "archivedReviews" /\ line.flags = "true"

TweakInit ==
  /\ RewriterIdle
  /\ PipelineIdle
  /\ input \in [file : ExtractedFiles, store : TweakStores]
  /\ output = [i \in DOMAIN input.file |-> "new"]
  /\ hpc = "loading"
  /\ dest = input.store

TweakFrame == UNCHANGED <<input, rewriteVars, pipelineVars>>

\* lines 122-130 for line i, with the value tweakReview left
WriteTweaked(i) ==
  LET line == input.file[i]
  IN IF LodashIsEmpty(line.value) THEN dest
     ELSE WriteValue(dest, line.key, Tweaked(line))

\* line 87: the mapper is called for each line as it arrives; processLine
\* runs to its first await: that of tweakReview, or that of its write
TakeLine(i) ==
  /\ hpc = "loading"
  /\ output[i] = "new"
  /\ \A j \in 1..(i - 1) : output[j] # "new"
  /\ IF Suspends(input.file[i])
       THEN /\ output' = [output EXCEPT ![i] = "tweak"]
            /\ UNCHANGED dest
       ELSE /\ output' = [output EXCEPT ![i] = "value"]
            /\ dest' = WriteTweaked(i)
  /\ UNCHANGED hpc
  /\ TweakFrame

\* lines 112-128: tweakReview returned, with its bodies rendered where they
\* changed, and the value is written
TweakReturns(i) ==
  /\ hpc = "loading"
  /\ output[i] = "tweak"
  /\ output' = [output EXCEPT ![i] = "value"]
  /\ dest' = WriteTweaked(i)
  /\ UNCHANGED hpc
  /\ TweakFrame

\* lines 130-146: the write returned and the queue request is issued
TweakedWritten(i) ==
  /\ hpc = "loading"
  /\ output[i] = "value"
  /\ dest' = Queue(dest, input.file[i])
  /\ output' = [output EXCEPT ![i] = IF QueueStep(input.file[i]) = "none" THEN "done"
                                     ELSE "queue"]
  /\ UNCHANGED hpc
  /\ TweakFrame

\* lines 139-146, 89: the queue request returned
TweakedQueued(i) ==
  /\ hpc = "loading"
  /\ output[i] = "queue"
  /\ output' = [output EXCEPT ![i] = "done"]
  /\ UNCHANGED <<dest, hpc>>
  /\ TweakFrame

\* lines 94-99: the stream ended, load() resolves
TweakEnd ==
  /\ hpc = "loading"
  /\ \A i \in DOMAIN input.file : output[i] = "done"
  /\ hpc' = "exit0"
  /\ UNCHANGED <<dest, output>>
  /\ TweakFrame

TweakNext ==
  \/ \E i \in DOMAIN input.file : TakeLine(i)
  \/ \E i \in DOMAIN input.file : TweakReturns(i)
  \/ \E i \in DOMAIN input.file : TweakedWritten(i)
  \/ \E i \in DOMAIN input.file : TweakedQueued(i)
  \/ TweakEnd

SpecTweak == TweakInit /\ [][TweakNext]_vars

\* what the store holds outside the queues
EntityData(store_) == [k \in {x \in DOMAIN store_ : x[1] # "queues"} |-> store_[k]]
\* the store after the values of the lines were written one line after the
\* other, in the order of the file
RECURSIVE LoadedInOrder(_, _)
LoadedInOrder(store_, lines) ==
  IF lines = <<>> THEN store_
  ELSE LET line == Head(lines)
       IN LoadedInOrder(IF LodashIsEmpty(line.value) THEN store_
                        ELSE WriteValue(store_, line.key, Tweaked(line)),
                        Tail(lines))

\* C37: when the load has completed, the destination holds outside its
\* queues what loading the lines one after the other would have left there,
\* in whatever order the processLine calls in flight went on and returned.
C37_OrderIndependent ==
  hpc = "exit0" => EntityData(dest) = EntityData(LoadedInOrder(input.store, input.file))

\* C37 witness: two reviews were waiting for tweakReview together, and the
\* processLine call of the second line has returned while that of the first
\* line is still waiting.
C37_Witness ==
  /\ Len(input.file) = 2
  /\ Suspends(input.file[1]) /\ Suspends(input.file[2])
  /\ output[1] = "tweak" /\ output[2] = "done"
  /\ input.file[2].key \in DOMAIN dest

-----------------------------------------------------------------------------
(* The repositories collection of the single-document extractor.  input is  *)
(* the seed list grouped by owner and the repositories the store holds;     *)
(* output is the text handed to the output stream, piece by piece; dest is  *)
(* the newCollection flag and the position of every call under way.         *)

MaxGroup == 2

NestOwners == {<<"acme">>, <<"acme", "beta">>}
\* groupedRepoNames: the owners in the order of their first seed, and the
\* number of seeds of each
NestInputs ==
  UNION { [owners : {owners}, size : [Elements(owners) -> 1..MaxGroup],
           found : SUBSET (Elements(owners) \X (1..MaxGroup))] : owners \in NestOwners }
ReposOf(o) == {o} \X (1..input.size[o])
NestRepos == UNION { ReposOf(o) : o \in Elements(input.owners) }

\* the pieces of text: the opening of a collection, an item, a closing brace
Opening(key, comma) == [t |-> "open", owner |-> key, name |-> 0, comma |-> comma]
Item(repo, comma) == [t |-> "item", owner |-> repo[1], name |-> repo[2], comma |-> comma]
Closing(key) == [t |-> "close", owner |-> key, name |-> 0, comma |-> FALSE]

\* lines 210-211: the pieces the calls writeCollection(key, ...) write for
\* the keys, one call after the other with none of them resumed
RECURSIVE Openings(_, _)
Openings(keys, newCollection) ==
  IF keys = <<>> THEN <<>>
  ELSE <<Opening(Head(keys), ~newCollection)>> \o Openings(Tail(keys), newCollection)

NestInit ==
  /\ RewriterIdle
  /\ PipelineIdle
  /\ input \in NestInputs
  /\ output = <<>>
  /\ hpc = "organizations"
  /\ dest = [newCollection |-> FALSE, owner |-> <<>>, repo |-> <<>>]

NestFrame == UNCHANGED <<input, rewriteVars, pipelineVars>>

\* lines 117-119, 209-210: extractRepositories, after the organizations
\* collection was closed, writes the opening of the collection
CallRepositories ==
  /\ hpc = "organizations"
  /\ output' = output \o Openings(<<"repositories">>, dest.newCollection)
  /\ hpc' = "opening"
  /\ UNCHANGED dest
  /\ NestFrame

\* lines 211-212, 120-121, 209-210: the write returned; the writer calls
\* forEachOf, which calls writeCollection for every owner before any of them
\* is resumed
RepositoriesOpened ==
  /\ hpc = "opening"
  /\ output' = output \o Openings(input.owners, TRUE)
  /\ dest' = [dest EXCEPT !.newCollection = TRUE,
                          !.owner = [o \in Elements(input.owners) |-> "opening"]]
  /\ hpc' = "owners"
  /\ NestFrame

\* lines 211-212, 122-124: the write of the opening of owner o returned;
\* forEachLimit starts the request of each of its repositories
OwnerOpened(o) ==
  /\ hpc = "owners"
  /\ o \in DOMAIN dest.owner
  /\ dest.owner[o] = "opening"
  /\ dest' = [dest EXCEPT !.newCollection = TRUE,
                          !.owner[o] = "items",
                          !.repo = [r \in DOMAIN dest.repo \cup ReposOf(o) |->
                                      IF r \in ReposOf(o) THEN "get" ELSE dest.repo[r]]]
  /\ UNCHANGED <<output, hpc>>
  /\ NestFrame

\* the workers of owner o are all done once repo is
LastOf(repo) ==
  \A r \in ReposOf(repo[1]) \ {repo} : r \in DOMAIN dest.repo /\ dest.repo[r] = "done"

\* lines 213-214: the writer of owner o returned, the closing brace is written
OwnerCloses(repo) ==
  IF LastOf(repo) THEN <<Closing(repo[1])>> ELSE <<>>

\* lines 124-136, 218-222: the request of a repository returned; a
\* repository found is written as an item
RepositoryGetReturns(repo) ==
  /\ hpc = "owners"
  /\ repo \in DOMAIN dest.repo
  /\ dest.repo[repo] = "get"
  /\ IF repo \in input.found
       THEN /\ output' = Append(output, Item(repo, ~dest.newCollection))
            /\ dest' = [dest EXCEPT !.newCollection = FALSE, !.repo[repo] = "writing"]
       ELSE /\ output' = output \o OwnerCloses(repo)
            /\ dest' = [dest EXCEPT !.repo[repo] = "done",
                                    !.owner[repo[1]] = IF LastOf(repo) THEN "closing" ELSE @]
  /\ UNCHANGED hpc
  /\ NestFrame

\* lines 222, 137-139, 213: the write of the item returned
ItemWritten(repo) ==
  /\ hpc = "owners"
  /\ repo \in DOMAIN dest.repo
  /\ dest.repo[repo] = "writing"
  /\ output' = output \o OwnerCloses(repo)
  /\ dest' = [dest EXCEPT !.repo[repo] = "done",
                          !.owner[repo[1]] = IF LastOf(repo) THEN "closing" ELSE @]
  /\ UNCHANGED hpc
  /\ NestFrame

\* lines 214, 140-141, 213: the write of the closing brace of owner o
\* returned; after the last owner the collection is closed
OwnerClosed(o) ==
  /\ hpc = "owners"
  /\ o \in DOMAIN dest.owner
  /\ dest.owner[o] = "closing"
  /\ dest' = [dest EXCEPT !.newCollection = FALSE, !.owner[o] = "done"]
  /\ IF \A p \in DOMAIN dest.owner \ {o} : dest.owner[p] = "done"
       THEN /\ output' = Append(output, Closing("repositories"))
            /\ hpc' = "closing"
       ELSE UNCHANGED <<output, hpc>>
  /\ NestFrame

\* lines 214, 63: the write of the closing brace returned
RepositoriesClosed ==
  /\ hpc = "closing"
  /\ dest' = [dest EXCEPT !.newCollection = FALSE]
  /\ hpc' = "users"
  /\ UNCHANGED output
  /\ NestFrame

NestNext ==
  \/ CallRepositories
  \/ RepositoriesOpened
  \/ \E o \in Elements(input.owners) : OwnerOpened(o)
  \/ \E repo \in NestRepos : RepositoryGetReturns(repo)
  \/ \E repo \in NestRepos : ItemWritten(repo)
  \/ \E o \in Elements(input.owners) : OwnerClosed(o)
  \/ RepositoriesClosed

SpecNest == NestInit /\ [][NestNext]_vars

\* the collections open after the first n pieces of the text, outermost first
RECURSIVE OpenAfter(_, _)
OpenAfter(text, n) ==
  IF n = 0 THEN <<>>
  ELSE LET open == OpenAfter(text, n - 1)
       IN IF text[n].t = "open" THEN Append(open, text[n].owner)
          ELSE IF text[n].t = "close" /\ open # <<>> THEN SubSeq(open, 1, Len(open) - 1)
          ELSE open
\* the collection in which piece i of the text stands
Enclosing(text, i) ==
  LET open == OpenAfter(text, i - 1)
  IN IF open = <<>> THEN "document" ELSE open[Len(open)]

\* C38: the text is well nested: every repository item stands in the
\* collection of its own owner, every owner's collection stands in the
\* repositories collection and is closed by its own brace, and a collection
\* or item carries a comma exactly when it is not the first of its
\* collection.
C38_WellNested ==
  \A i \in DOMAIN output :
    /\ output[i].t = "item" => Enclosing(output, i) = output[i].owner
    /\ output[i].t = "close" => Enclosing(output, i) = output[i].owner
    /\ output[i].t = "open" =>
         Enclosing(output, i) = IF output[i].owner = "repositories" THEN "document"
                                ELSE "repositories"
    /\ output[i].t # "close" => output[i].comma = (i = 1 \/ output[i - 1].t # "open")

\* the text is well nested when the seed list names repositories of a single
\* owner
OneOwnerWellNested ==
  Len(input.owners) = 1 => C38_WellNested


-----------------------------------------------------------------------------
(* Key rotation (rotate_rsa_key.js, three variants).  input is the variant  *)
(* run, the number of private keys configured and the token each user has   *)
(* in the store before the run; dest is the token of each user in the store *)
(* and the count of updated tokens; output is the position of the           *)
(* transaction of each user.  A stored token is described by its prefix, by *)
(* what decrypting it with each configured key does, and by whether its     *)
(* undecrypted text is short enough to be encrypted with the primary key.   *)

MaxKeys == 2
MaxUsers == 2

\* crypto.privateDecrypt / key.decrypt: the call throws, or returns a text
\* with a hexadecimal digit, a text without one, or the empty text
Decrypts == {"throws", "hex", "garbage", "empty"}
NoToken == [prefix |-> "absent", outs |-> <<>>, fits |-> TRUE]
StoredTokens(n) ==
  {NoToken}
    \cup [prefix : {"none", "rsa9"}, outs : {<<>>}, fits : BOOLEAN]
    \cup [prefix : {"rsa", "rsa2"}, outs : [1..n -> Decrypts], fits : BOOLEAN]
\* the first variant knows the prefix rsa: only, and is run on such stores
TokensOf(variant, n) ==
  IF variant = 1 THEN {t \in StoredTokens(n) : t.prefix \in {"absent", "none", "rsa"}}
  ELSE StoredTokens(n)

\* what recrypt does: it returns undefined, returns a new token (encrypted
\* with the primary key from the text named by of), or throws
ReturnsUndefined == [r |-> "undefined", of |-> "none", updated |-> 0]
Throws == [r |-> "throw", of |-> "none", updated |-> 0]
\* lines 127, 251, 433: crypto.publicEncrypt / publicKey.encrypt of a text;
\* a token, and a text decrypted with a key no larger than the primary key,
\* fit, the stored text fits when it is short enough
Encrypted(version, of, updated, fits) ==
  IF of = "stored" /\ ~fits THEN Throws
  ELSE [r |-> "return", of |-> <<version, of>>, updated |-> updated]

Falsy(plainText) == plainText \in {"undefined", "null", "empty"}
\* /[0-9a-f]+/i.test(plainText)
HexTest(plainText) == plainText = "hex"

\* lines 106-118: the loop of the first variant from key i on; gives the
\* plain text after the loop, or "return" for the return of line 110
RECURSIVE Loop1(_, _, _)
Loop1(outs, i, plainText) ==
  IF i > Len(outs) THEN [plainText |-> plainText, updated |-> 0]
  ELSE IF outs[i] = "throws" THEN Loop1(outs, i + 1, plainText)
  ELSE IF HexTest(outs[i])
         THEN IF i = 1 THEN [plainText |-> "return", updated |-> 0]
              ELSE [plainText |-> outs[i], updated |-> 1]
  ELSE Loop1(outs, i + 1, "null")

\* lines 100-128: recrypt of the first variant
Recrypt1(token) ==
  IF token.prefix = "absent" THEN ReturnsUndefined
  ELSE IF token.prefix = "rsa"
    THEN LET after == Loop1(token.outs, 1, "undefined")
         IN IF after.plainText = "return" THEN ReturnsUndefined
            ELSE IF Falsy(after.plainText) THEN Throws
            ELSE Encrypted("rsa", after.plainText, after.updated, token.fits)
  ELSE Encrypted("rsa", "stored", 0, token.fits)

\* lines 232-244, 414-426: the loop of the later variants from key i on
RECURSIVE Loop2(_, _, _, _)
Loop2(outs, version, i, plainText) ==
  IF i > Len(outs) THEN [plainText |-> plainText, updated |-> 0]
  ELSE IF outs[i] = "throws" THEN Loop2(outs, version, i + 1, plainText)
  ELSE IF HexTest(outs[i])
         THEN IF i = 1 /\ version = "rsa2" THEN [plainText |-> "return", updated |-> 0]
              ELSE [plainText |-> outs[i], updated |-> 1]
  ELSE Loop2(outs, version, i + 1, outs[i])

\* line 245: the second variant gives up when the plain text is still the
\* stored text
GivesUp2(plainText) == plainText = "stored"
\* line 427: the third variant gives up when the plain text is falsy
GivesUp3(plainText) == Falsy(plainText)

\* lines 206-252 (variant 2) and 390-434 (variant 3): recrypt
RecryptLater(variant, token) ==
  IF token.prefix = "absent" THEN ReturnsUndefined
  ELSE IF token.prefix = "none" THEN Encrypted("rsa2", "stored", 0, token.fits)
  ELSE IF token.prefix \notin {"rsa", "rsa2"} THEN Throws
  ELSE LET after == Loop2(token.outs, token.prefix, 1, "stored")
       IN IF after.plainText = "return" THEN ReturnsUndefined
          ELSE IF (IF variant = 2 THEN GivesUp2(after.plainText)
                   ELSE GivesUp3(after.plainText)) THEN Throws
          ELSE Encrypted("rsa2", after.plainText, after.updated, token.fits)

recrypt(variant, token) ==
  IF variant = 1 THEN Recrypt1(token) ELSE RecryptLater(variant, token)

RotateInit ==
  /\ RewriterIdle
  /\ PipelineIdle
  /\ \E v \in 1..3, n \in 1..MaxKeys, u \in 1..MaxUsers :
       input \in [variant : {v}, keys : {n}, tokens : [1..u -> TokensOf(v, n)]]
  /\ output = [u \in DOMAIN input.tokens |-> "new"]
  /\ hpc = "keys"
  /\ dest = [token |-> [u \in DOMAIN input.tokens |-> <<"stored", u>>], updatedTokens |-> 0]

RotateFrame == UNCHANGED <<input, rewriteVars, pipelineVars>>

\* lines 46-49, 185-188, 336-339: the user keys arrived; eachLimit starts
\* the transaction of every user (there are fewer than its limit)
StartTransactions ==
  /\ hpc = "keys"
  /\ hpc' = "rotating"
  /\ output' = [u \in DOMAIN output |-> "transaction"]
  /\ UNCHANGED dest
  /\ RotateFrame

\* lines 49-52, 188-192, 339-342: the transaction of user u runs recrypt on
\* the stored token; a token returned is stored, undefined leaves the store
\* as it is, and an error thrown rejects the transaction and with it the
\* run, which exits with status 1 (lines 57-62)
TransactionRuns(u) ==
  /\ hpc = "rotating"
  /\ output[u] = "transaction"
  /\ LET result == recrypt(input.variant, input.tokens[u])
     IN IF result.r = "throw"
          THEN /\ hpc' = "exit1"
               /\ output' = [output EXCEPT ![u] = "failed"]
               /\ UNCHANGED dest
          ELSE /\ output' = [output EXCEPT ![u] = "done"]
               /\ dest' = [token |-> IF result.r = "return"
                                       THEN [dest.token EXCEPT ![u] = result.of]
                                     ELSE dest.token,
                           updatedTokens |-> dest.updatedTokens + result.updated]
               /\ UNCHANGED hpc
  /\ RotateFrame

\* lines 53-56, 193-198, 344-346: every transaction returned, the count is printed and the
\* run exits with status 0
RotateEnd ==
  /\ hpc = "rotating"
  /\ \A u \in DOMAIN output : output[u] = "done"
  /\ hpc' = "exit0"
  /\ UNCHANGED <<dest, output>>
  /\ RotateFrame

RotateNext ==
  \/ StartTransactions
  \/ \E u \in DOMAIN input.tokens : TransactionRuns(u)
  \/ RotateEnd

SpecRotate == RotateInit /\ [][RotateNext]_vars

\* a stored token that is encrypted and that no configured key decrypts to
\* a text passing the test of the code
Undecryptable(token) ==
  /\ token.prefix \in {"rsa", "rsa2"}
  /\ \A i \in DOMAIN token.outs : ~HexTest(token.outs[i])

\* C39: in every variant a stored token that none of the configured keys can
\* decrypt is never replaced in the store, and the rotation does not end
\* with success.
C39_UndecryptableFails ==
  \A u \in DOMAIN input.tokens :
    Undecryptable(input.tokens[u]) =>
      /\ dest.token[u] = <<"stored", u>>
      /\ hpc # "exit0"

\* the same for the first variant alone
FirstVariantFails == input.variant = 1 => C39_UndecryptableFails
\* the same for the later variants, for a token that every key rejects with
\* an error and whose stored text is too long for the primary key
LongRejectedFails ==
  \A u \in DOMAIN input.tokens :
    /\ Undecryptable(input.tokens[u])
    /\ ~input.tokens[u].fits
    /\ \A i \in DOMAIN input.tokens[u].outs : input.tokens[u].outs[i] = "throws"
    => dest.token[u] = <<"stored", u>> /\ hpc # "exit0"


-----------------------------------------------------------------------------
(* requestKeys (lib/requestKeys.js, and the copy in rotate_rsa_key.js).     *)
(* input is what the server answers to the first, second, ... request;      *)
(* output is the number of requests issued and the settlements of the       *)
(* promise in their order; dest is the variable tries.                      *)

MaxResponses == 5

\* a key of the body is given by its characters, an escape being the
\* backslash and the two characters after it
\* lines 48-52: decode replaces every escape by the character with the
\* hexadecimal code it gives (the character 0 when it gives none)
decode(string) ==
  [i \in DOMAIN string |->
     IF string[i] = "\\2e" THEN "."
     ELSE IF string[i] = "\\zz" THEN "NUL"
     ELSE string[i]]

\* an answer: a transport error, a status other than 200, a body that is
\* not JSON, or a body that is: null, or an object by its keys
Answers ==
  [t : {"error", "status", "unparsable", "null"}, keys : {<<>>}]
    \cup [t : {"object"}, keys : {<< <<"a">>, <<"a", "\\2e", "b">> >>, << <<"\\zz">> >>}]

\* lines 28-40: the callback leaves error set
AnswerFails(answer) == answer.t \in {"error", "status", "unparsable"}
\* line 31: the keys of the parsed body, decoded
DecodedKeys(answer) == [i \in DOMAIN answer.keys |-> decode(answer.keys[i])]

\* lines 31, 41: resolve(keys) and reject(error), as the settlement they ask for
ResolveWith(keys) == [how |-> "resolved", keys |-> keys, error |-> "none", attempt |-> 0]
RejectWith(error, attempt) == [how |-> "rejected", keys |-> <<>>, error |-> error, attempt |-> attempt]

\* a callback that asks once more
MayRetryOnceMore(tries) == tries <= 4
\* line 41: ++tries <= 3
MayRetry(tries) == tries <= 3

KeysInit ==
  /\ RewriterIdle
  /\ PipelineIdle
  /\ input \in [1..MaxResponses -> Answers]
  /\ output = [requests |-> 0, settled |-> <<>>]
  /\ hpc = "new"
  /\ dest = 0

KeysFrame == UNCHANGED <<input, rewriteVars, pipelineVars>>

\* lines 19-23, 44: requestKeys is called and issues the first request
CallRequestKeys ==
  /\ hpc = "new"
  /\ hpc' = "pending"
  /\ output' = [output EXCEPT !.requests = 1]
  /\ dest' = 0
  /\ KeysFrame

\* lines 27-32: the answer is a body that parses; the promise is resolved
AnswerParses ==
  /\ hpc = "pending"
  /\ output.requests <= MaxResponses
  /\ ~AnswerFails(input[output.requests])
  /\ output' = [output EXCEPT
                  !.settled = Append(@, ResolveWith(DecodedKeys(input[output.requests])))]
  /\ hpc' = "settled"
  /\ UNCHANGED dest
  /\ KeysFrame

\* lines 27-41: the answer is a failure; the request is issued again, or the
\* promise is rejected with the error of this answer
AnswerIsFailure ==
  /\ hpc = "pending"
  /\ output.requests <= MaxResponses
  /\ AnswerFails(input[output.requests])
  /\ dest' = dest + 1
  /\ IF MayRetry(dest + 1)
       THEN /\ output' = [output EXCEPT !.requests = @ + 1]
            /\ UNCHANGED hpc
       ELSE /\ output' = [output EXCEPT
                            !.settled = Append(@, RejectWith(input[output.requests].t,
                                                      output.requests))]
            /\ hpc' = "settled"
  /\ KeysFrame

KeysNext ==
  \/ CallRequestKeys
  \/ AnswerParses
  \/ AnswerIsFailure

SpecKeys == KeysInit /\ [][KeysNext]_vars

\* the first of the first four answers that is no failure, 0 when there is
\* none
FirstGood ==
  IF \E n \in 1..4 : ~AnswerFails(input[n])
    THEN CHOOSE n \in 1..4 : ~AnswerFails(input[n]) /\ \A m \in 1..(n - 1) : AnswerFails(input[m])
  ELSE 0

\* C40: at most four requests are issued, each but the first after the
\* answer to the one before it was a failure; the promise is settled at most
\* once, and once settled it is resolved with the decoded keys of the first
\* answer that was no failure, or rejected with the error of the fourth
\* answer when all four failed.
C40_BoundedRetries ==
  /\ output.requests <= 4
  /\ \A n \in 2..output.requests : AnswerFails(input[n - 1])
  /\ Len(output.settled) <= 1
  /\ hpc = "settled" <=> Len(output.settled) = 1
  /\ hpc = "settled" =>
       /\ output.requests = IF FirstGood = 0 THEN 4 ELSE FirstGood
       /\ output.settled[1] =
            IF FirstGood = 0 THEN RejectWith(input[4].t, 4)
            ELSE ResolveWith([i \in DOMAIN input[FirstGood].keys |->
                            decode(input[FirstGood].keys[i])])

\* C40 witness: three answers were failures and the fourth brought keys with
\* an escape, with which the promise is resolved.
C40_Witness ==
  /\ hpc = "settled"
  /\ output.requests = 4
  /\ dest = 3
  /\ output.settled = <<ResolveWith(<< <<"a">>, <<"a", ".", "b">> >>)>>

====
